---- MODULE Spec2Model ----
(***************************************************************************)
(* A model of serde_toon: the Writer (src/src/ser.rs), the Parser          *)
(* (src/src/de.rs) and the Value Model (src/src/value.rs, src/src/map.rs). *)
(*                                                                         *)
(* Text is a sequence of characters, a character is a one-element string   *)
(* ("NUL", "BS" and "FF" name U+0000, U+0008 and U+000C).  Both engines are*)
(* pure functions, modelled as operators that compute what the code        *)
(* computes; the state machine draws a Value tree and Options, serializes  *)
(* the tree and parses the produced text back.                             *)
(***************************************************************************)
EXTENDS Integers, Sequences, FiniteSets, TLC

\* ------------------------------------------------------------------ bounds

\* Longest string enumerated exhaustively over Alphabet.
MaxStrLen == 2

\* Longest array of scalars enumerated exhaustively.
MaxArrLen == 2

\* ------------------------------------------------------------- characters

\* The characters of the model in ascending code-point order (String::cmp
\* compares bytes, and all of these are ASCII): the printable characters
\* but the grave accent, and the controls that the writer and the parser
\* name.
Ascii ==
    << "NUL", "BS", "\t", "\n", "FF", "\r", " ", "!", "\"", "#", "$", "%",
       "&", "'", "(", ")", "*", "+", ",", "-", ".", "/", "0", "1", "2", "3",
       "4", "5", "6", "7", "8", "9", ":", ";", "<", "=", ">", "?", "@", "A",
       "B", "C", "D", "E", "F", "G", "H", "I", "J", "K", "L", "M", "N", "O",
       "P", "Q", "R", "S", "T", "U", "V", "W", "X", "Y", "Z", "[", "\\", "]",
       "^", "_", "a", "b", "c", "d", "e", "f", "g", "h", "i", "j", "k",
       "l", "m", "n", "o", "p", "q", "r", "s", "t", "u", "v", "w", "x", "y",
       "z", "{", "|", "}", "~" >>

\* The code point of each character of Ascii.
CodePoints ==
    << 0, 8, 9, 10, 12, 13, 32, 33, 34, 35, 36, 37, 38, 39, 40, 41, 42, 43,
       44, 45, 46, 47, 48, 49, 50, 51, 52, 53, 54, 55, 56, 57, 58, 59, 60,
       61, 62, 63, 64, 65, 66, 67, 68, 69, 70, 71, 72, 73, 74, 75, 76, 77,
       78, 79, 80, 81, 82, 83, 84, 85, 86, 87, 88, 89, 90, 91, 92, 93, 94,
       95, 97, 98, 99, 100, 101, 102, 103, 104, 105, 106, 107, 108, 109,
       110, 111, 112, 113, 114, 115, 116, 117, 118, 119, 120, 121, 122, 123,
       124, 125, 126 >>

CharCode(c) == CodePoints[CHOOSE i \in 1..Len(Ascii) : Ascii[i] = c]

DigitChars == << "0", "1", "2", "3", "4", "5", "6", "7", "8", "9" >>

is_ascii_digit(c) == \E i \in 1..10 : DigitChars[i] = c

DigitVal(c) == (CHOOSE i \in 1..10 : DigitChars[i] = c) - 1

\* A character that is not in Ascii, named by its code point: U+233 is
\* char::from_u32(233). Two of them are equal when their code points are.
OtherChar(code_point) == "U+" \o ToString(code_point)

\* The characters outside Ascii that have the White_Space property:
\* U+000B, U+0085, U+00A0, U+1680, U+2000..U+200A, U+2028, U+2029, U+202F,
\* U+205F and U+3000.
OtherWhiteSpace ==
    { OtherChar(code_point) :
          code_point \in {11, 133, 160, 5760, 8232, 8233, 8239, 8287, 12288}
                             \cup (8192..8202) }

\* char::is_whitespace
is_whitespace(c) ==
    c \in {" ", "\t", "\n", "\r", "FF"} \/ c \in OtherWhiteSpace

\* ------------------------------------------------------------------- text

RECURSIVE Flatten(_)
Flatten(ss) == IF ss = << >> THEN << >> ELSE Head(ss) \o Flatten(Tail(ss))

RECURSIVE Repeat(_, _)
Repeat(c, n) == IF n <= 0 THEN << >> ELSE << c >> \o Repeat(c, n - 1)

Contains(s, c) == \E i \in 1..Len(s) : s[i] = c

StartsWith(s, p) == Len(s) >= Len(p) /\ SubSeq(s, 1, Len(p)) = p

\* input[pos..].starts_with(p), pos counted from 0.
StartsWithAt(input, pos, p) ==
    /\ pos + Len(p) <= Len(input)
    /\ SubSeq(input, pos + 1, pos + Len(p)) = p

\* str::contains for a pattern of one or more characters.
ContainsSub(s, p) == \E i \in 0..(Len(s) - Len(p)) : StartsWithAt(s, i, p)

\* str::cmp: lexicographic on code points, a proper prefix is smaller.
RECURSIVE TextLess(_, _)
TextLess(a, b) ==
    IF b = << >> THEN FALSE
    ELSE IF a = << >> THEN TRUE
    ELSE IF Head(a) = Head(b) THEN TextLess(Tail(a), Tail(b))
    ELSE CharCode(Head(a)) < CharCode(Head(b))

\* str::trim restricted to the characters of Ascii.
RECURSIVE TrimStart(_)
TrimStart(s) ==
    IF s # << >> /\ is_whitespace(Head(s)) THEN TrimStart(Tail(s)) ELSE s

RECURSIVE TrimEnd(_)
TrimEnd(s) ==
    IF s # << >> /\ is_whitespace(s[Len(s)])
    THEN TrimEnd(SubSeq(s, 1, Len(s) - 1)) ELSE s

Trim(s) == TrimEnd(TrimStart(s))

\* slice::join
RECURSIVE Join(_, _)
Join(ss, sep) ==
    IF ss = << >> THEN << >>
    ELSE IF Len(ss) = 1 THEN ss[1]
    ELSE ss[1] \o sep \o Join(Tail(ss), sep)

\* The lines of a text (split at "\n").
RECURSIVE SplitLines(_)
SplitLines(s) ==
    IF ~Contains(s, "\n") THEN << s >>
    ELSE LET i == CHOOSE j \in 1..Len(s) :
                     s[j] = "\n" /\ \A k \in 1..(j - 1) : s[k] # "\n"
         IN << SubSeq(s, 1, i - 1) >> \o SplitLines(SubSeq(s, i + 1, Len(s)))

\* ---------------------------------------------------------------- numbers

RECURSIVE NatToText(_)
NatToText(n) ==
    IF n < 10 THEN << DigitChars[n + 1] >>
    ELSE NatToText(n \div 10) \o << DigitChars[(n % 10) + 1] >>

\* A to_string that drops the sign.
MagnitudeToText(i) == IF i < 0 THEN NatToText(0 - i) ELSE NatToText(i)

\* i64::to_string / usize::to_string
IntToText(i) == IF i < 0 THEN << "-" >> \o NatToText(0 - i) ELSE NatToText(i)

RECURSIVE DigitsToNat(_)
DigitsToNat(s) ==
    IF s = << >> THEN 0
    ELSE DigitsToNat(SubSeq(s, 1, Len(s) - 1)) * 10 + DigitVal(s[Len(s)])

AllDigits(s) == \A i \in 1..Len(s) : is_ascii_digit(s[i])

RECURSIVE Pow10(_)
Pow10(n) == IF n <= 0 THEN 1 ELSE 10 * Pow10(n - 1)

\* A finite f64 is the decimal m / 10^e, kept normal (e = 0 or m not a
\* multiple of 10); sp distinguishes the non-finite values and the zero
\* whose sign bit is set.
RECURSIVE NormFloat(_, _)
NormFloat(m, e) ==
    IF e > 0 /\ m % 10 = 0 THEN NormFloat(m \div 10, e - 1)
    ELSE [k |-> "Float", sp |-> "fin", m |-> m, e |-> e]

FloatInf == [k |-> "Float", sp |-> "inf",  m |-> 0, e |-> 0]
FloatNegInf == [k |-> "Float", sp |-> "-inf", m |-> 0, e |-> 0]
FloatNaN == [k |-> "Float", sp |-> "nan",  m |-> 0, e |-> 0]
FloatNegZero == [k |-> "Float", sp |-> "-0", m |-> 0, e |-> 0]

Integer(i) == [k |-> "Integer", i |-> i]
Float(m, e) == NormFloat(m, e)
Infinity == [k |-> "Infinity"]
NegativeInfinity == [k |-> "NegativeInfinity"]
NaN == [k |-> "NaN"]

\* <f64 as Display>::fmt: the shortest decimal, never an exponent; a whole
\* number prints without a fraction ("1" for 1.0).
FloatToText(f) ==
    IF f.sp = "inf" THEN << "i", "n", "f" >>
    ELSE IF f.sp = "-inf" THEN << "-", "i", "n", "f" >>
    ELSE IF f.sp = "nan" THEN << "N", "a", "N" >>
    ELSE IF f.sp = "-0" THEN << "-", "0" >>
    ELSE LET abs == IF f.m < 0 THEN 0 - f.m ELSE f.m
             ds  == NatToText(abs)
             pad == Repeat("0", (f.e + 1) - Len(ds)) \o ds
             sgn == IF f.m < 0 THEN << "-" >> ELSE << >>
         IN IF f.e = 0 THEN sgn \o ds
            ELSE sgn \o SubSeq(pad, 1, Len(pad) - f.e) \o << "." >>
                     \o SubSeq(pad, Len(pad) - f.e + 1, Len(pad))

\* <Number as Display>::fmt
NumberToText(n) ==
    CASE n.k = "Integer" -> IntToText(n.i)
      [] n.k = "Float" -> FloatToText(n)
      [] n.k = "Infinity" -> << "I", "n", "f", "i", "n", "i", "t", "y" >>
      [] n.k = "NegativeInfinity" ->
             << "-", "I", "n", "f", "i", "n", "i", "t", "y" >>
      [] n.k = "NaN" -> << "N", "a", "N" >>

\* str::parse::<i64>: an optional sign and one or more digits.
ParseI64(s) ==
    LET signed == s # << >> /\ s[1] \in {"+", "-"}
        body   == IF signed THEN Tail(s) ELSE s
    IN IF body # << >> /\ AllDigits(body)
       THEN [ok |-> TRUE,
             i |-> IF signed /\ s[1] = "-" THEN 0 - DigitsToNat(body)
                   ELSE DigitsToNat(body)]
       ELSE [ok |-> FALSE, i |-> 0]

Lower(c) ==
    CASE c = "A" -> "a" [] c = "B" -> "b" [] c = "C" -> "c" [] c = "D" -> "d"
      [] c = "E" -> "e" [] c = "F" -> "f" [] c = "G" -> "g" [] c = "H" -> "h"
      [] c = "I" -> "i" [] c = "J" -> "j" [] c = "K" -> "k" [] c = "L" -> "l"
      [] c = "M" -> "m" [] c = "N" -> "n" [] c = "O" -> "o" [] c = "P" -> "p"
      [] c = "Q" -> "q" [] c = "R" -> "r" [] c = "S" -> "s" [] c = "T" -> "t"
      [] c = "U" -> "u" [] c = "V" -> "v" [] c = "W" -> "w" [] c = "X" -> "x"
      [] c = "Y" -> "y" [] c = "Z" -> "z"
      [] OTHER -> c

LowerText(s) == [i \in 1..Len(s) |-> Lower(s[i])]

\* The length of the longest prefix of s made of digits.
RECURSIVE DigitRun(_)
DigitRun(s) ==
    IF s # << >> /\ is_ascii_digit(Head(s)) THEN 1 + DigitRun(Tail(s)) ELSE 0

\* str::parse::<f64> (core::num::dec2flt): [sign] then inf | infinity | nan
\* in any case, or digits [. digits] [(e|E) [sign] digits] with at least one
\* mantissa digit.  The stages below follow the text from right to left of
\* that grammar; ParseF64 is the entry.
F64Bad == [ok |-> FALSE, f |-> FloatNaN]

F64Ok(f) == [ok |-> TRUE, f |-> f]

\* The sign of the text on the value read from its digits: a zero after
\* a '-' is the negative zero.
F64Signed(neg, r) ==
    IF neg /\ r.ok /\ r.f.sp = "fin" /\ r.f.m = 0 THEN F64Ok(FloatNegZero)
    ELSE r

\* F applied to x, x being evaluated once, before F uses it.
Bind(x, F(_)) == CHOOSE y \in {F(v) : v \in {x}} : TRUE

\* Natural numbers beyond the machine word, as their digits to the base
\* 10^4 ("limbs") with the most significant first; the empty sequence is
\* zero.
RECURSIVE LimbsOf(_)
LimbsOf(n) ==
    IF n = 0 THEN << >> ELSE Append(LimbsOf(n \div 10000), n % 10000)

\* The value of the first i limbs of ls.
RECURSIVE LimbsValueTo(_, _)
LimbsValueTo(ls, i) ==
    IF i <= 0 THEN 0 ELSE LimbsValueTo(ls, i - 1) * 10000 + ls[i]

\* The limbs of the number whose limbs but the last are front and whose
\* last limb and carry into front are t.
Carried(front, t) == Append(front, t % 10000)

\* The first i limbs of ls, times f, plus carry.
RECURSIVE LimbsTimesTo(_, _, _, _)
LimbsTimesTo(ls, f, i, carry) ==
    IF i = 0 THEN LimbsOf(carry)
    ELSE Bind(ls[i] * f + carry,
              LAMBDA t : Carried(LimbsTimesTo(ls, f, i - 1, t \div 10000), t))

\* ls * f + carry, for a factor f up to 10^4 and a carry below f.
LimbsTimes(ls, f, carry) ==
    Bind(<< ls, f >>, LAMBDA p : LimbsTimesTo(p[1], p[2], Len(p[1]), carry))

\* The limb of ls that has back limbs after it, 0 before the first limb.
Limb(ls, back) == IF back < Len(ls) THEN ls[Len(ls) - back] ELSE 0

\* a + b + carry without the last back limbs of both.
RECURSIVE LimbsPlusFrom(_, _, _, _)
LimbsPlusFrom(a, b, back, carry) ==
    IF back >= Len(a) /\ back >= Len(b) THEN LimbsOf(carry)
    ELSE Bind(Limb(a, back) + Limb(b, back) + carry,
              LAMBDA t : Carried(LimbsPlusFrom(a, b, back + 1, t \div 10000),
                                 t))

LimbsPlus(a, b) ==
    Bind(<< a, b >>, LAMBDA p : LimbsPlusFrom(p[1], p[2], 0, 0))

\* ls times the first i limbs of x, limb by limb.
RECURSIVE LimbsProductTo(_, _, _)
LimbsProductTo(ls, x, i) ==
    IF i = 0 THEN << >>
    ELSE LimbsPlus(Append(LimbsProductTo(ls, x, i - 1), 0),
                   LimbsTimes(ls, x[i], 0))

\* The subnormal f64 are the multiples of 2^-1074, and a value is read as
\* the nearest of them: k * 2^-1074 stands for everything between
\* (2k - 1) * 2^-1075 and (2k + 1) * 2^-1075.  In the unit 10^-324 the
\* half step 2^-1075 is 2.4703..., and a unit holds 2^1075 / 10^324 =
\* 0.404804506614621236704990... half steps.  For x below 3 * 10^10 the
\* product x * 2^1075 / 10^324 is never within 10^-12 of a whole number
\* (its continued fraction), so the first 24 digits decide how many half
\* steps lie at or below x units.
HalfStepsPerUnit == << 4048, 450, 6614, 6212, 3670, 4990 >>

\* The whole part of product / 10^24: the division drops six limbs.
WholePart(product) ==
    Bind(product, LAMBDA p : LimbsValueTo(p, Len(p) - 6))

\* floor(x * HalfStepsPerUnit / 10^24), x in limbs.
HalfSteps(x) ==
    Bind(x, LAMBDA v : WholePart(LimbsProductTo(HalfStepsPerUnit, v, Len(v))))

\* x + 1/2 units are more than k * 2^-1074, which is 4k half steps twice.
Above(x, k) == HalfSteps(LimbsTimes(LimbsOf(x), 2, 1)) >= 4 * k

\* The whole numbers of units that are read as k * 2^-1074, whole being
\* one of them or the whole number below one.
ReadAs(whole, k) ==
    {x \in (whole - 4)..(whole + 5) :
         x > 0 /\ HalfSteps(LimbsOf(x)) \in {2 * k - 1, 2 * k}}

\* <f64 as Display>::fmt of k * 2^-1074, in the unit 10^-324: of the whole
\* numbers that are read back as k the one with the fewest digits, which
\* is the multiple of ten where there is one (the numbers are fewer than
\* ten), and the nearest to k * 2^-1074 where all have as many.
ShortestOf(readAlike, k) ==
    IF \E x \in readAlike : x % 10 = 0
    THEN CHOOSE x \in readAlike : x % 10 = 0
    ELSE CHOOSE x \in readAlike : Above(x, k) /\ ~Above(x - 1, k)

\* dec2flt below the normal range, for a / 10^e with e >= 324 (with a
\* smaller e the decimal is itself what the f64 prints): the value is
\* rounded to k * 2^-1074, to zero when k = 0.
F64Nearest(a, j, k) ==
    IF k = 0 THEN 0 ELSE ShortestOf(ReadAs(a \div Pow10(j), k), k)

\* a / 10^e as a whole number of units; ten digits and more past the unit
\* leave less than half a step of any a the model holds.
F64Subnormal(a, e) ==
    IF e - 324 > 9 THEN 0
    ELSE Bind(((HalfSteps(LimbsOf(a)) \div Pow10(e - 324)) + 1) \div 2,
              LAMBDA k : F64Nearest(a, e - 324, k))

\* sign * n units.
Units(sign, n) == IF n = 0 THEN NormFloat(0, 0) ELSE NormFloat(sign * n, 324)

\* The f64 nearest to the decimal f, its m not a multiple of 10 when e > 0.
F64Rounded(f) ==
    Bind(f, LAMBDA v :
                IF v.e < 324 THEN v
                ELSE Units(IF v.m < 0 THEN 0 - 1 ELSE 1,
                           F64Subnormal(IF v.m < 0 THEN 0 - v.m ELSE v.m, v.e)))

\* The value sm / 10^nFrac * 10^expVal: zero whatever the exponent, and
\* infinite from 10^309 on (f64::MAX is below 1.8 * 10^308).
F64Scaled(sm, nFrac, expVal) ==
    IF sm = 0 THEN F64Ok(NormFloat(0, 0))
    ELSE IF expVal - nFrac >= 309
    THEN F64Ok(IF sm < 0 THEN FloatNegInf ELSE FloatInf)
    ELSE IF expVal >= nFrac THEN F64Ok(NormFloat(sm * Pow10(expVal - nFrac), 0))
    ELSE F64Ok(F64Rounded(NormFloat(sm, nFrac - expVal)))

\* The exponent's digits, after its optional sign.
F64Exponent(sm, nFrac, expNeg, expDig) ==
    IF expDig = << >> \/ ~AllDigits(expDig) THEN F64Bad
    ELSE F64Scaled(sm, nFrac, IF expNeg THEN 0 - DigitsToNat(expDig)
                              ELSE DigitsToNat(expDig))

\* What follows the mantissa: nothing, which leaves the value as with an
\* exponent of 0, or an exponent.
F64Tail(sm, nFrac, rest) ==
    IF rest # << >> /\ Lower(rest[1]) # "e" THEN F64Bad
    ELSE F64Exponent(sm, nFrac, Len(rest) >= 2 /\ rest[2] = "-",
                     IF rest = << >> THEN << "0" >>
                     ELSE IF Len(rest) >= 2 /\ rest[2] \in {"+", "-"}
                     THEN SubSeq(rest, 3, Len(rest))
                     ELSE Tail(rest))

\* The mantissa: intDigits, then the first nFrac characters of rest.
F64Fraction(neg, intDigits, rest, nFrac) ==
    IF Len(intDigits) + nFrac = 0 THEN F64Bad
    ELSE Bind(<< (IF neg THEN 0 - 1 ELSE 1)
                     * DigitsToNat(intDigits \o SubSeq(rest, 1, nFrac)),
                 nFrac, SubSeq(rest, nFrac + 1, Len(rest)) >>,
              LAMBDA p : F64Tail(p[1], p[2], p[3]))

\* What follows the nInt digits body starts with: after a '.' the fraction.
AfterInt(body, nInt) ==
    IF nInt < Len(body) /\ body[nInt + 1] = "."
    THEN SubSeq(body, nInt + 2, Len(body))
    ELSE SubSeq(body, nInt + 1, Len(body))

\* body starts with nInt digits; a '.' after them starts the fraction.
F64Mantissa(neg, body, nInt) ==
    F64Fraction(neg, SubSeq(body, 1, nInt), AfterInt(body, nInt),
                IF nInt < Len(body) /\ body[nInt + 1] = "."
                THEN DigitRun(AfterInt(body, nInt))
                ELSE 0)

F64Unsigned(neg, body) ==
    IF body = << >> THEN F64Bad
    ELSE IF LowerText(body) \in { << "i", "n", "f" >>,
                                  << "i", "n", "f", "i", "n", "i", "t", "y" >> }
    THEN F64Ok(IF neg THEN FloatNegInf ELSE FloatInf)
    ELSE IF LowerText(body) = << "n", "a", "n" >> THEN F64Ok(FloatNaN)
    ELSE F64Signed(neg, F64Mantissa(neg, body, DigitRun(body)))

\* The text after its optional sign.
Unsigned(s) == IF s # << >> /\ s[1] \in {"+", "-"} THEN Tail(s) ELSE s

ParseF64(s) ==
    Bind(s, LAMBDA v : F64Unsigned(v # << >> /\ v[1] = "-", Unsigned(v)))

\* ----------------------------------------------------------- value model

Null == [t |-> "Null"]
Bool(b) == [t |-> "Bool", b |-> b]
Number(n) == [t |-> "Number", n |-> n]
String(s) == [t |-> "String", s |-> s]
Array(a) == [t |-> "Array", a |-> a]
\* An object is its entries in insertion order, the keys distinct.
Object(o) == [t |-> "Object", o |-> o]
Table(headers, rows) == [t |-> "Table", headers |-> headers, rows |-> rows]
\* A Date is the number of whole days since 1970-01-01T00:00:00Z, below 9.
Date(d) == [t |-> "Date", d |-> d]
BigInt(i) == [t |-> "BigInt", i |-> i]

Entry(k, v) == [k |-> k, v |-> v]

Keys(o) == [i \in 1..Len(o) |-> o[i].k]

HasKey(o, k) == \E i \in 1..Len(o) : o[i].k = k

\* ToonMap::get, for a key that is present.
Get(o, k) == o[CHOOSE i \in 1..Len(o) : o[i].k = k].v

\* ToonMap::insert (IndexMap::insert): a present key keeps its position and
\* takes the new value, a new key is appended.
MapInsert(o, k, v) ==
    IF HasKey(o, k)
    THEN [i \in 1..Len(o) |-> IF o[i].k = k THEN Entry(k, v) ELSE o[i]]
    ELSE Append(o, Entry(k, v))

\* DateTime<Utc>::to_rfc3339
DateText(d) ==
    << "1", "9", "7", "0", "-", "0", "1", "-", "0", DigitChars[d + 2], "T",
       "0", "0", ":", "0", "0", ":", "0", "0", "+", "0", "0", ":", "0", "0" >>

\* format!("{}n", bi)
BigIntText(i) == IntToText(i) \o << "n" >>

\* One object per row of a table, keyed by header (rows longer than the
\* headers lose their surplus cells).
RECURSIVE RowObject(_, _, _)
RowObject(headers, row, i) ==
    IF i = 0 THEN << >>
    ELSE IF i <= Len(headers)
    THEN MapInsert(RowObject(headers, row, i - 1), headers[i], row[i])
    ELSE RowObject(headers, row, i - 1)

\* The equality derived for ToonValue: IndexMap compares as a map (the order
\* of the entries does not count), f64 compares by IEEE value (NaN # NaN).
RECURSIVE ValueEq(_, _)
ValueEq(x, y) ==
    IF x.t # y.t THEN FALSE
    ELSE CASE x.t = "Null" -> TRUE
           [] x.t = "Bool" -> x.b = y.b
           [] x.t = "Number" ->
                  /\ x.n.k = y.n.k
                  /\ CASE x.n.k = "Integer" -> x.n.i = y.n.i
                       [] x.n.k = "Float" ->
                              /\ x.n.sp # "nan"
                              /\ \/ x.n = y.n
                                 \/ /\ x.n.sp \in {"fin", "-0"}
                                    /\ y.n.sp \in {"fin", "-0"}
                                    /\ x.n.m = 0 /\ y.n.m = 0
                       [] OTHER -> TRUE
           [] x.t = "String" -> x.s = y.s
           [] x.t = "Array" ->
                  /\ Len(x.a) = Len(y.a)
                  /\ \A i \in 1..Len(x.a) : ValueEq(x.a[i], y.a[i])
           [] x.t = "Object" ->
                  /\ Len(x.o) = Len(y.o)
                  /\ \A i \in 1..Len(x.o) :
                         /\ HasKey(y.o, x.o[i].k)
                         /\ ValueEq(x.o[i].v, Get(y.o, x.o[i].k))
           [] x.t = "Table" ->
                  /\ x.headers = y.headers
                  /\ Len(x.rows) = Len(y.rows)
                  /\ \A i \in 1..Len(x.rows) :
                         /\ Len(x.rows[i]) = Len(y.rows[i])
                         /\ \A j \in 1..Len(x.rows[i]) :
                                ValueEq(x.rows[i][j], y.rows[i][j])
           [] x.t = "Date" -> x.d = y.d
           [] x.t = "BigInt" -> x.i = y.i

\* ---------------------------------------------------------------- options

\* Delimiter::as_str
as_str(delimiter) ==
    CASE delimiter = "Comma" -> << "," >>
      [] delimiter = "Tab" -> << "\t" >>
      [] delimiter = "Pipe" -> << "|" >>

\* ToonOptions; length_marker is << >> (None) or << c >> (Some(c)).
ToonOptions(indent, delimiter, length_marker, pretty) ==
    [indent |-> indent, delimiter |-> delimiter,
     length_marker |-> length_marker, pretty |-> pretty]

\* ToonOptions::default
DefaultOptions == ToonOptions(2, "Comma", << >>, FALSE)

\* ----------------------------------------------------------------- writer

\* An escape loop that writes the backspace with the escape of the form
\* feed, and every other character as the writer does.
EscapeBackspaceAsFormFeed(ch) ==
    CASE ch = "\"" -> << "\\", "\"" >>
      [] ch = "\\" -> << "\\", "\\" >>
      [] ch = "\n" -> << "\\", "n" >>
      [] ch = "\r" -> << "\\", "r" >>
      [] ch = "\t" -> << "\\", "t" >>
      [] ch = "BS" -> << "\\", "f" >>
      [] ch = "FF" -> << "\\", "f" >>
      [] ch = "NUL" -> << "\\", "0" >>
      [] OTHER -> << ch >>

\* The escape loop shared by Serializer::write_string and
\* write_toon_value_quoted.
EscapeChar(ch) ==
    CASE ch = "\"" -> << "\\", "\"" >>
      [] ch = "\\" -> << "\\", "\\" >>
      [] ch = "\n" -> << "\\", "n" >>
      [] ch = "\r" -> << "\\", "r" >>
      [] ch = "\t" -> << "\\", "t" >>
      [] ch = "BS" -> << "\\", "b" >>
      [] ch = "FF" -> << "\\", "f" >>
      [] ch = "NUL" -> << "\\", "0" >>
      [] OTHER -> << ch >>

Escape(s) == Flatten([i \in 1..Len(s) |-> EscapeChar(s[i])])

Quoted(s) == << "\"" >> \o Escape(s) \o << "\"" >>

\* Serializer::needs_quotes
needs_quotes(s) ==
    \/ s = << >>
    \/ Contains(s, ":")
    \/ Contains(s, ",")
    \/ Contains(s, "\n")
    \/ Contains(s, "\t")
    \/ Contains(s, "|")
    \/ Contains(s, "\"")
    \/ Contains(s, "\\")
    \/ Contains(s, "NUL")
    \/ StartsWith(s, << " " >>)
    \/ s[Len(s)] = " "
    \/ s = << "t", "r", "u", "e" >>
    \/ s = << "f", "a", "l", "s", "e" >>
    \/ s = << "n", "u", "l", "l" >>
    \/ ParseF64(s).ok

\* Serializer::write_string
write_string(s) == IF needs_quotes(s) THEN Quoted(s) ELSE s

\* needs_quotes_toon
needs_quotes_toon(s, options) ==
    IF s = << >> THEN TRUE
    ELSE IF StartsWith(s, << " " >>) \/ s[Len(s)] = " " THEN TRUE
    ELSE IF \/ Contains(s, ":")
            \/ Contains(s, "\"")
            \/ Contains(s, "\\")
            \/ Contains(s, "\n")
            \/ Contains(s, "\r")
            \/ Contains(s, "\t")
            \/ Contains(s, "NUL")
    THEN TRUE
    ELSE IF ContainsSub(s, as_str(options.delimiter)) THEN TRUE
    ELSE IF \/ s = << "t", "r", "u", "e" >>
            \/ s = << "f", "a", "l", "s", "e" >>
            \/ s = << "n", "u", "l", "l" >>
    THEN TRUE
    ELSE IF ParseF64(s).ok \/ ParseI64(s).ok THEN TRUE
    ELSE IF StartsWith(s, << "-", " " >>) THEN TRUE
    ELSE IF StartsWith(s, << "[" >>) /\ Contains(s, "]") THEN TRUE
    ELSE IF StartsWith(s, << "{" >>) /\ Contains(s, "}") THEN TRUE
    ELSE FALSE

\* is_primitive_value
is_primitive_value(value) ==
    value.t \in {"Null", "Bool", "Number", "String", "Date", "BigInt"}

\* [T]::sort on strings (insertion into the sorted prefix).
RECURSIVE SortedInsert(_, _)
SortedInsert(sorted, k) ==
    IF sorted = << >> THEN << k >>
    ELSE IF TextLess(k, Head(sorted)) THEN << k >> \o sorted
    ELSE << Head(sorted) >> \o SortedInsert(Tail(sorted), k)

RECURSIVE SortTexts(_)
SortTexts(ks) ==
    IF ks = << >> THEN << >>
    ELSE SortedInsert(SortTexts(SubSeq(ks, 1, Len(ks) - 1)), ks[Len(ks)])

\* sorted_entries.sort_by(|(k1, _), (k2, _)| k1.cmp(k2)) in write_list_array
SortEntries(o) ==
    LET ks == SortTexts(Keys(o))
    IN [i \in 1..Len(ks) |-> Entry(ks[i], Get(o, ks[i]))]

\* The keys of an object as inserted: the header row without the sort.
InsertionOrderHeaders(o) == Keys(o)

\* The header row of can_be_tabular: the keys of an object, sorted.
SortedHeaders(o) == SortTexts(Keys(o))

\* can_be_tabular: None, or Some((headers, rows)).
can_be_tabular(elements) ==
    LET none == [some |-> FALSE, headers |-> << >>, rows |-> << >>]
        AllPrimitive(o) == \A i \in 1..Len(o) : is_primitive_value(o[i].v)
    IN IF elements = << >> THEN none
       ELSE IF elements[1].t # "Object" THEN none
       ELSE IF ~AllPrimitive(elements[1].o) THEN none
       ELSE LET first_headers == SortedHeaders(elements[1].o)
            IN IF \A i \in 1..Len(elements) :
                      /\ elements[i].t = "Object"
                      /\ SortedHeaders(elements[i].o) = first_headers
                      /\ AllPrimitive(elements[i].o)
               THEN [some |-> TRUE,
                     headers |-> first_headers,
                     rows |-> [i \in 1..Len(elements) |->
                                 [j \in 1..Len(first_headers) |->
                                    IF HasKey(elements[i].o, first_headers[j])
                                    THEN Get(elements[i].o, first_headers[j])
                                    ELSE Null]]]
               ELSE none

\* len_marker: the length, behind the marker when one is configured.
LenMarker(n, options) == options.length_marker \o IntToText(n)

\* header_suffix
HeaderSuffix(options) ==
    CASE options.delimiter = "Comma" -> << >>
      [] options.delimiter = "Tab" -> << " ", " ", " ", " " >>
      [] options.delimiter = "Pipe" -> << "|" >>

\* headers_str
HeadersStr(headers, options) ==
    CASE options.delimiter = "Comma" -> Join(headers, << "," >>)
      [] options.delimiter = "Tab" -> Join(headers, << " ", " ", " ", " " >>)
      [] options.delimiter = "Pipe" -> Join(headers, << "|" >>)

\* An indentation one level deeper than the level given.
IndentOneDeeper(indent_level, options) ==
    Repeat(" ", (indent_level + 1) * options.indent)

Indent(indent_level, options) == Repeat(" ", indent_level * options.indent)

RECURSIVE write_toon_value_quoted(_, _)
RECURSIVE write_object(_, _, _)
RECURSIVE write_array_toon(_, _, _)
RECURSIVE write_tabular_array(_, _, _, _)
RECURSIVE write_inline_array(_, _)
RECURSIVE write_list_array(_, _, _)

\* write_tabular_array
write_tabular_array(headers, rows, options, indent_level) ==
    << "[" >> \o LenMarker(Len(rows), options) \o HeaderSuffix(options)
        \o << "]", "{" >> \o HeadersStr(headers, options) \o << "}", ":" >>
        \o Flatten([i \in 1..Len(rows) |->
              << "\n" >> \o Indent(indent_level + 1, options)
                  \o Join([j \in 1..Len(rows[i]) |->
                             write_toon_value_quoted(rows[i][j], options)],
                          as_str(options.delimiter))])

\* write_inline_array
write_inline_array(elements, options) ==
    << "[" >> \o LenMarker(Len(elements), options) \o HeaderSuffix(options)
        \o << "]", ":", " " >>
        \o Join([i \in 1..Len(elements) |->
                   write_toon_value_quoted(elements[i], options)],
                as_str(options.delimiter))

\* One entry of write_list_array, behind its "- ".
ListEntry(element, options, indent_level) ==
    IF element.t = "Object"
    THEN LET sorted_entries == SortEntries(element.o)
         IN IF sorted_entries = << >> THEN << >>
            ELSE sorted_entries[1].k \o << ":", " " >>
                   \o write_toon_value_quoted(sorted_entries[1].v, options)
                   \o Flatten([i \in 1..(Len(sorted_entries) - 1) |->
                         << "\n" >> \o Indent(indent_level + 1, options)
                             \o << " ", " " >> \o sorted_entries[i + 1].k
                             \o << ":", " " >>
                             \o write_toon_value_quoted(sorted_entries[i + 1].v,
                                                        options)])
    ELSE write_toon_value_quoted(element, options)

\* write_list_array
write_list_array(elements, options, indent_level) ==
    << "[" >> \o LenMarker(Len(elements), options) \o << "]", ":" >>
        \o Flatten([i \in 1..Len(elements) |->
              << "\n" >> \o Indent(indent_level + 1, options) \o << "-", " " >>
                  \o ListEntry(elements[i], options, indent_level)])

\* write_array_toon
write_array_toon(arr, options, indent_level) ==
    IF arr = << >> THEN << "[", "0", "]", ":" >>
    ELSE LET tabular == can_be_tabular(arr)
         IN IF tabular.some
            THEN write_tabular_array(tabular.headers, tabular.rows, options,
                                     indent_level)
            ELSE IF \A i \in 1..Len(arr) : is_primitive_value(arr[i])
            THEN write_inline_array(arr, options)
            ELSE write_list_array(arr, options, indent_level)

\* The text write_object emits for the value of one field, behind "key:".
FieldValue(value, options, indent_level) ==
    CASE value.t = "Array" ->
             << " " >> \o write_array_toon(value.a, options, indent_level)
      [] value.t = "Object" ->
             << "\n" >> \o write_object(value.o, options, indent_level + 1)
      [] value.t = "Table" ->
             << "\n" >> \o Indent(indent_level + 1, options)
                 \o write_toon_value_quoted(value, options)
      [] OTHER -> << " " >> \o write_toon_value_quoted(value, options)

\* write_object; entries is the Vec<(String, ToonValue)> of the fields.
write_object(entries, options, indent_level) ==
    Flatten([i \in 1..Len(entries) |->
        (IF i > 1 THEN << "\n" >> ELSE << >>)
          \o (IF indent_level > 0 THEN Indent(indent_level, options)
              ELSE IF i > 1 /\ options.pretty
              THEN Indent(indent_level, options)
              ELSE << >>)
          \o entries[i].k \o << ":" >>
          \o FieldValue(entries[i].v, options, indent_level)])

\* write_toon_value_quoted
write_toon_value_quoted(value, options) ==
    CASE value.t = "Null" -> << "n", "u", "l", "l" >>
      [] value.t = "Bool" ->
             IF value.b THEN << "t", "r", "u", "e" >>
             ELSE << "f", "a", "l", "s", "e" >>
      [] value.t = "Number" -> NumberToText(value.n)
      [] value.t = "String" ->
             IF needs_quotes_toon(value.s, options) THEN Quoted(value.s)
             ELSE value.s
      [] value.t = "Array" ->
             << "[" >>
                 \o Join([i \in 1..Len(value.a) |->
                            write_toon_value_quoted(value.a[i], options)],
                         as_str(options.delimiter))
                 \o << "]" >>
      [] value.t = "Object" -> write_object(value.o, options, 0)
      [] value.t = "Table" ->
             write_tabular_array(value.headers, value.rows, options, 0)
      [] value.t = "Date" ->
             IF needs_quotes_toon(DateText(value.d), options)
             THEN << "\"" >> \o DateText(value.d) \o << "\"" >>
             ELSE DateText(value.d)
      [] value.t = "BigInt" ->
             IF needs_quotes_toon(BigIntText(value.i), options)
             THEN << "\"" >> \o BigIntText(value.i) \o << "\"" >>
             ELSE BigIntText(value.i)

\* to_toon_value: <ToonValue as Serialize>::serialize into
\* ToonValueSerializer.  Special numbers become the f64 they stand for, dates
\* and big integers their text, a table one object per row.
RECURSIVE to_toon_value(_)
RECURSIVE InsertAll(_, _)
InsertAll(o, n) ==
    IF n = 0 THEN << >>
    ELSE MapInsert(InsertAll(o, n - 1), o[n].k, to_toon_value(o[n].v))

to_toon_value(value) ==
    CASE value.t = "Number" ->
             (CASE value.n.k = "Infinity" -> Number(FloatInf)
                [] value.n.k = "NegativeInfinity" -> Number(FloatNegInf)
                [] value.n.k = "NaN" -> Number(FloatNaN)
                [] OTHER -> value)
      [] value.t = "Array" ->
             Array([i \in 1..Len(value.a) |-> to_toon_value(value.a[i])])
      [] value.t = "Object" -> Object(InsertAll(value.o, Len(value.o)))
      [] value.t = "Table" ->
             Array([i \in 1..Len(value.rows) |->
                      to_toon_value(Object(RowObject(value.headers,
                                                     value.rows[i],
                                                     Len(value.rows[i]))))])
      [] value.t = "Date" -> String(DateText(value.d))
      [] value.t = "BigInt" -> String(BigIntText(value.i))
      [] OTHER -> value

\* SeqSerializer::end
SeqSerializer_end(elements, options, indent_level) ==
    IF elements = << >> THEN << "[", "0", "]", ":" >>
    ELSE LET tabular == can_be_tabular(elements)
         IN IF tabular.some
            THEN write_tabular_array(tabular.headers, tabular.rows, options,
                                     indent_level)
            ELSE IF \A i \in 1..Len(elements) : is_primitive_value(elements[i])
            THEN write_inline_array(elements, options)
            ELSE write_list_array(elements, options, indent_level)

\* serialize_f64 of the f64 a Number stands for.
NumberAsF64Text(n) ==
    CASE n.k = "Float" -> FloatToText(n)
      [] n.k = "Infinity" -> FloatToText(FloatInf)
      [] n.k = "NegativeInfinity" -> FloatToText(FloatNegInf)
      [] n.k = "NaN" -> FloatToText(FloatNaN)

\* to_string_with_options: <ToonValue as Serialize>::serialize into a fresh
\* Serializer (indent_level 0), then into_inner.
to_string_with_options(value, options) ==
    CASE value.t = "Null" -> << "n", "u", "l", "l" >>
      [] value.t = "Bool" ->
             IF value.b THEN << "t", "r", "u", "e" >>
             ELSE << "f", "a", "l", "s", "e" >>
      [] value.t = "Number" ->
             IF value.n.k = "Integer" THEN IntToText(value.n.i)
             ELSE NumberAsF64Text(value.n)
      [] value.t = "String" -> write_string(value.s)
      [] value.t = "Array" ->
             SeqSerializer_end([i \in 1..Len(value.a) |->
                                  to_toon_value(value.a[i])], options, 0)
      [] value.t = "Object" ->
             write_object([i \in 1..Len(value.o) |->
                             Entry(value.o[i].k, to_toon_value(value.o[i].v))],
                          options, 0)
      [] value.t = "Table" ->
             SeqSerializer_end(to_toon_value(value).a, options, 0)
      [] value.t = "Date" -> write_string(DateText(value.d))
      [] value.t = "BigInt" -> write_string(BigIntText(value.i))

\* to_string
to_string(value) == to_string_with_options(value, DefaultOptions)

\* ----------------------------------------------------------------- parser

\* peek_char at the end of the input.
None == "EOF"

\* Deserializer::from_str: the parser's position (a count of characters
\* consumed) and indentation state; line and column only decorate errors.
Deserializer_from_str ==
    [pos |-> 0, current_indent |-> 0, indent_stack |-> << 0 >>]

Ok(v, st) == [ok |-> TRUE, v |-> v, st |-> st, err |-> << >>]
Err(msg, st) == [ok |-> FALSE, v |-> Null, st |-> st, err |-> msg]

peek_char(input, st) ==
    IF st.pos < Len(input) THEN input[st.pos + 1] ELSE None

\* next_char, n times
Advance(st, n) == [st EXCEPT !.pos = @ + n]

at_end(input, st) == st.pos >= Len(input)

RECURSIVE skip_whitespace(_, _)
skip_whitespace(input, st) ==
    IF st.pos < Len(input) /\ is_whitespace(input[st.pos + 1])
       /\ input[st.pos + 1] # "\n"
    THEN skip_whitespace(input, Advance(st, 1))
    ELSE st

RECURSIVE skip_whitespace_same_line(_, _)
skip_whitespace_same_line(input, st) ==
    IF st.pos < Len(input) /\ input[st.pos + 1] \in {" ", "\t"}
    THEN skip_whitespace_same_line(input, Advance(st, 1))
    ELSE st

\* The number of spaces starting at position pos.
RECURSIVE CountSpaces(_, _)
CountSpaces(input, pos) ==
    IF pos < Len(input) /\ input[pos + 1] = " "
    THEN 1 + CountSpaces(input, pos + 1)
    ELSE 0

detect_indent_level(input, st) == CountSpaces(input, st.pos)

push_indent(st, level) == [st EXCEPT !.indent_stack = Append(@, level)]

pop_indent(st) ==
    IF Len(st.indent_stack) > 1
    THEN [st EXCEPT !.indent_stack = SubSeq(@, 1, Len(@) - 1)]
    ELSE st

\* The lookahead of parse_value and parse_object: a ':' before the end of
\* the line that starts at pos.
RECURSIVE found_colon(_, _)
found_colon(input, pos) ==
    IF pos >= Len(input) THEN FALSE
    ELSE IF input[pos + 1] = ":" THEN TRUE
    ELSE IF input[pos + 1] = "\n" THEN FALSE
    ELSE found_colon(input, pos + 1)

is_ascii_hexdigit(c) ==
    c \in {"0", "1", "2", "3", "4", "5", "6", "7", "8", "9",
           "a", "b", "c", "d", "e", "f", "A", "B", "C", "D", "E", "F"}

HexVal(c) ==
    IF is_ascii_digit(c) THEN DigitVal(c)
    ELSE CASE Lower(c) = "a" -> 10 [] Lower(c) = "b" -> 11
           [] Lower(c) = "c" -> 12 [] Lower(c) = "d" -> 13
           [] Lower(c) = "e" -> 14 [] Lower(c) = "f" -> 15

\* u32::from_str_radix(hex, 16) of four hex digits
HexToNat(hex) ==
    ((HexVal(hex[1]) * 16 + HexVal(hex[2])) * 16 + HexVal(hex[3])) * 16
        + HexVal(hex[4])

\* char::from_u32: none for a surrogate; a character outside Ascii is
\* kept with its code point.
IsSurrogate(code_point) == code_point >= 55296 /\ code_point <= 57343

FromU32(code_point) ==
    IF \E i \in 1..Len(Ascii) : CodePoints[i] = code_point
    THEN Ascii[CHOOSE i \in 1..Len(Ascii) : CodePoints[i] = code_point]
    ELSE OtherChar(code_point)

\* The hex digits among the next (up to four) characters of a \u escape,
\* counted until the first character that is not one.
RECURSIVE CountHex(_, _, _)
CountHex(input, pos, n) ==
    IF n < 4 /\ pos < Len(input) /\ is_ascii_hexdigit(input[pos + 1])
    THEN CountHex(input, pos + 1, n + 1)
    ELSE n

\* parse_string, quoted branch: the loop after the opening quote.
RECURSIVE QuotedLoop(_, _, _)
QuotedLoop(input, st, result) ==
    LET ch == peek_char(input, st)
        s1 == Advance(st, 1)
        e  == peek_char(input, s1)
        s2 == Advance(s1, 1)
        hexn == CountHex(input, s2.pos, 0)
        hex == SubSeq(input, s2.pos + 1, s2.pos + 4)
    IN IF ch = None THEN Err(<< "Unterminated string" >>, st)
       ELSE IF ch = "\"" THEN Ok(result, s1)
       ELSE IF ch # "\\" THEN QuotedLoop(input, s1, Append(result, ch))
       ELSE IF e = None
            THEN Err(<< "Unexpected end of input in string" >>, s1)
       ELSE IF e = "\\" THEN QuotedLoop(input, s2, Append(result, "\\"))
       ELSE IF e = "\"" THEN QuotedLoop(input, s2, Append(result, "\""))
       ELSE IF e = "n" THEN QuotedLoop(input, s2, Append(result, "\n"))
       ELSE IF e = "r" THEN QuotedLoop(input, s2, Append(result, "\r"))
       ELSE IF e = "t" THEN QuotedLoop(input, s2, Append(result, "\t"))
       ELSE IF e = "b" THEN QuotedLoop(input, s2, Append(result, "BS"))
       ELSE IF e = "f" THEN QuotedLoop(input, s2, Append(result, "FF"))
       ELSE IF e = "0" THEN QuotedLoop(input, s2, Append(result, "NUL"))
       ELSE IF e = "u"
            THEN IF hexn < 4
                 THEN Err(<< "Invalid unicode escape sequence (expected 4 hex digits)"
                          >>,
                          Advance(s2, IF s2.pos + hexn < Len(input)
                                      THEN hexn + 1 ELSE hexn))
                 ELSE IF IsSurrogate(HexToNat(hex))
                 THEN Err(<< "Invalid unicode code point" >>, Advance(s2, 4))
                 ELSE QuotedLoop(input, Advance(s2, 4),
                                 Append(result, FromU32(HexToNat(hex))))
       ELSE QuotedLoop(input, s2, Append(Append(result, "\\"), e))

\* parse_string, unquoted branch: the position of the first of
\* ':' ',' '\n' '\t' '|' ']' '}' at or after pos, or the end of the input.
RECURSIVE UnquotedEnd(_, _)
UnquotedEnd(input, pos) ==
    IF pos >= Len(input) THEN pos
    ELSE IF input[pos + 1] \in {":", ",", "\n", "\t", "|", "]", "}"} THEN pos
    ELSE UnquotedEnd(input, pos + 1)

parse_string(input, st) ==
    IF peek_char(input, st) = "\""
    THEN QuotedLoop(input, Advance(st, 1), << >>)
    ELSE LET stop == UnquotedEnd(input, st.pos)
         IN IF stop = st.pos THEN Err(<< "Expected string" >>, st)
            ELSE Ok(Trim(SubSeq(input, st.pos + 1, stop)),
                    [st EXCEPT !.pos = stop])

\* Ok(Value::String(..?)), Ok(Value::Bool(..?)) and Ok(Value::Number(..?))
\* around a parser result.
StringResult(r) == IF r.ok THEN Ok(String(r.v), r.st) ELSE r
BoolResult(r) == IF r.ok THEN Ok(Bool(r.v), r.st) ELSE r
NumberResult(r) == IF r.ok THEN Ok(Number(r.v), r.st) ELSE r

\* parse_number, the digit loop: where it stops and whether it met a '.'.
RECURSIVE NumberEnd(_, _, _)
NumberEnd(input, pos, has_decimal) ==
    IF pos < Len(input) /\ is_ascii_digit(input[pos + 1])
    THEN NumberEnd(input, pos + 1, has_decimal)
    ELSE IF pos < Len(input) /\ input[pos + 1] = "." /\ ~has_decimal
    THEN NumberEnd(input, pos + 1, TRUE)
    ELSE [pos |-> pos, has_decimal |-> has_decimal]

parse_number(input, st) ==
    LET s1 == IF peek_char(input, st) = "-" THEN Advance(st, 1) ELSE st
        stop == NumberEnd(input, s1.pos, FALSE)
        s2 == [st EXCEPT !.pos = stop.pos]
        number_str == SubSeq(input, st.pos + 1, stop.pos)
        AsFloat(p) == IF p.ok THEN Ok(p.f, s2)
                      ELSE Err(<< "Invalid float" >>, s2)
        AsInteger(p) == IF p.ok THEN Ok(Integer(p.i), s2)
                        ELSE Err(<< "Invalid integer" >>, s2)
    IN IF stop.has_decimal THEN AsFloat(ParseF64(number_str))
       ELSE AsInteger(ParseI64(number_str))

parse_bool(input, st) ==
    IF StartsWithAt(input, st.pos, << "t", "r", "u", "e" >>)
    THEN Ok(TRUE, Advance(st, 4))
    ELSE IF StartsWithAt(input, st.pos, << "f", "a", "l", "s", "e" >>)
    THEN Ok(FALSE, Advance(st, 5))
    ELSE Err(<< "Expected boolean" >>, st)

parse_null(input, st) ==
    IF StartsWithAt(input, st.pos, << "n", "u", "l", "l" >>)
    THEN Ok(Null, Advance(st, 4))
    ELSE Err(<< "Expected null" >>, st)

\* The reading of an unquoted string shared by parse_primitive_value and
\* parse_value: true, false, null, an i64, an f64, else the string itself.
Coerce(s) ==
    IF s = << "t", "r", "u", "e" >> THEN Bool(TRUE)
    ELSE IF s = << "f", "a", "l", "s", "e" >> THEN Bool(FALSE)
    ELSE IF s = << "n", "u", "l", "l" >> THEN Null
    ELSE LET Numeric(i, f) == IF i.ok THEN Number(Integer(i.i))
                              ELSE IF f.ok THEN Number(f.f)
                              ELSE String(s)
         IN Numeric(ParseI64(s), ParseF64(s))

CoercedResult(r) == IF r.ok THEN Ok(Coerce(r.v), r.st) ELSE r

parse_primitive_value(input, st) ==
    LET s1 == skip_whitespace(input, st)
        ch == peek_char(input, s1)
    IN IF ch = "\"" THEN StringResult(parse_string(input, s1))
       ELSE IF ch \in {"t", "f"} THEN BoolResult(parse_bool(input, s1))
       ELSE IF ch = "n" THEN parse_null(input, s1)
       ELSE IF is_ascii_digit(ch) \/ ch = "-"
       THEN NumberResult(parse_number(input, s1))
       ELSE CoercedResult(parse_string(input, s1))

\* "Skip delimiter" in parse_inline_array and parse_table.
SkipDelimiter(input, st, delimiter) ==
    IF << peek_char(input, st) >> = as_str(delimiter)
    THEN Advance(st, 1) ELSE st

\* parse_inline_array, the loop from element i.
RECURSIVE InlineLoop(_, _, _, _, _, _)
InlineLoop(input, st, i, declared_length, delimiter, elements) ==
    IF i >= declared_length THEN Ok(Array(elements), st)
    ELSE LET s1 == IF i > 0
                   THEN skip_whitespace(input,
                                        SkipDelimiter(input, st, delimiter))
                   ELSE st
             Next_element(r) ==
                 IF ~r.ok THEN r
                 ELSE InlineLoop(input, r.st, i + 1, declared_length,
                                 delimiter, Append(elements, r.v))
         IN Next_element(parse_primitive_value(input, s1))

parse_inline_array(input, st, declared_length, delimiter) ==
    InlineLoop(input, st, 0, declared_length, delimiter, << >>)

\* parse_table, the header loop.
RECURSIVE HeaderLoop(_, _, _)
HeaderLoop(input, st, headers) ==
    IF ~at_end(input, st) /\ peek_char(input, st) # "}"
    THEN LET Next_header(r) ==
                 IF ~r.ok THEN r
                 ELSE IF peek_char(input, r.st) = ","
                 THEN HeaderLoop(input, Advance(r.st, 1),
                                 Append(headers, r.v))
                 ELSE Ok(Append(headers, r.v), r.st)
         IN Bind(parse_string(input, st), Next_header)
    ELSE Ok(headers, st)

\* parse_table, the cells of one row from column i.
RECURSIVE RowCells(_, _, _, _, _, _)
RowCells(input, st, i, width, delimiter, row) ==
    IF i >= width THEN Ok(row, st)
    ELSE LET s1 == IF i > 0
                   THEN skip_whitespace(input,
                                        SkipDelimiter(input, st, delimiter))
                   ELSE st
             Next_cell(r) ==
                 IF ~r.ok THEN r
                 ELSE RowCells(input, r.st, i + 1, width, delimiter,
                               Append(row, r.v))
         IN Bind(parse_primitive_value(input, s1), Next_cell)

\* parse_table, the row loop from row i.
RECURSIVE RowLoop(_, _, _, _, _, _, _)
RowLoop(input, st, i, declared_length, headers, delimiter, rows) ==
    IF i >= declared_length THEN Ok(Table(headers, rows), st)
    ELSE LET s1 == IF peek_char(input, st) = "\n" THEN Advance(st, 1) ELSE st
             s2 == skip_whitespace(input, s1)
             Next_row(r) ==
                 IF ~r.ok THEN r
                 ELSE RowLoop(input, r.st, i + 1, declared_length, headers,
                              delimiter, Append(rows, r.v))
         IN IF at_end(input, s2) THEN Ok(Table(headers, rows), s2)
            ELSE Next_row(RowCells(input, s2, 0, Len(headers), delimiter,
                                   << >>))

parse_table(input, st, declared_length, delimiter) ==
    IF peek_char(input, st) # "{" THEN Err(<< "Expected '{'" >>, st)
    ELSE LET Rows(h) ==
                 IF ~h.ok THEN h
                 ELSE IF peek_char(input, h.st) # "}"
                 THEN Err(<< "Expected '}'" >>, h.st)
                 ELSE IF peek_char(input, Advance(h.st, 1)) # ":"
                 THEN Err(<< "Expected ':'" >>, Advance(h.st, 1))
                 ELSE RowLoop(input, Advance(h.st, 2), 0, declared_length,
                              h.v, delimiter, << >>)
         IN Rows(HeaderLoop(input, Advance(st, 1), << >>))

RECURSIVE parse_value(_, _)
RECURSIVE parse_array(_, _)
RECURSIVE parse_object(_, _)

\* parse_list_array, the loop from element i.
RECURSIVE ListLoop(_, _, _, _, _)
ListLoop(input, st, i, declared_length, elements) ==
    IF i >= declared_length THEN Ok(Array(elements), st)
    ELSE LET s1 == IF peek_char(input, st) = "\n" THEN Advance(st, 1) ELSE st
             s2 == [s1 EXCEPT !.current_indent = detect_indent_level(input, s1)]
             s3 == skip_whitespace(input, s2)
             Next_entry(r) ==
                 IF ~r.ok THEN r
                 ELSE ListLoop(input, r.st, i + 1, declared_length,
                               Append(elements, r.v))
         IN IF peek_char(input, s3) # "-"
            THEN Err(<< "Expected '- ' prefix in list format" >>, s3)
            ELSE IF peek_char(input, Advance(s3, 1)) # " "
            THEN Err(<< "Expected space after '-'" >>, Advance(s3, 1))
            ELSE Next_entry(parse_value(input, Advance(s3, 2)))

parse_list_array(input, st, declared_length) ==
    ListLoop(input, st, 0, declared_length, << >>)

parse_array(input, st) ==
    LET s1 == Advance(st, 1)
        s2 == IF peek_char(input, s1) = "#" THEN Advance(s1, 1) ELSE s1
        ndig == DigitRun(SubSeq(input, s2.pos + 1, Len(input)))
        s3 == Advance(s2, ndig)
        declared_length == DigitsToNat(SubSeq(input, s2.pos + 1, s3.pos))
        space_count == CountSpaces(input, s3.pos)
        delimiter == IF peek_char(input, s3) = "|" THEN "Pipe"
                     ELSE IF space_count >= 4 THEN "Tab" ELSE "Comma"
        s4 == IF delimiter = "Pipe" THEN Advance(s3, 1)
              ELSE IF delimiter = "Tab" THEN Advance(s3, space_count)
              ELSE s3
        s5 == Advance(s4, 1)
        s6 == Advance(s5, 1)
        s7 == skip_whitespace(input, s6)
    IN IF peek_char(input, st) # "[" THEN Err(<< "Expected '['" >>, st)
       ELSE IF ndig = 0 THEN Err(<< "Invalid array length" >>, s3)
       ELSE IF peek_char(input, s4) # "]" THEN Err(<< "Expected ']'" >>, s4)
       ELSE IF peek_char(input, s5) = "{"
       THEN parse_table(input, s5, declared_length, delimiter)
       ELSE IF peek_char(input, s5) # ":" THEN Err(<< "Expected ':'" >>, s5)
       ELSE IF declared_length = 0 THEN Ok(Array(<< >>), s6)
       ELSE IF peek_char(input, s7) = "\n"
       THEN parse_list_array(input, s7, declared_length)
       ELSE parse_inline_array(input, s7, declared_length, delimiter)

\* parse_object, the field loop.
RECURSIVE ObjectLoop(_, _, _, _)
ObjectLoop(input, st, base_indent, map) ==
    LET s1 == skip_whitespace_same_line(input, st)
        nl == peek_char(input, s1) = "\n"
        s2 == IF nl
              THEN [Advance(s1, 1) EXCEPT
                       !.current_indent = CountSpaces(input, s1.pos + 1)]
              ELSE s1
        s3 == skip_whitespace_same_line(input, s2)
        Insert(key, val) ==
            IF ~val.ok THEN val
            ELSE ObjectLoop(input, skip_whitespace_same_line(input, val.st),
                            base_indent, MapInsert(map, key.v, val.v))
        \* after the ':' and the blanks that follow it
        Value_at(key, s5) ==
            IF peek_char(input, s5) = "\n"
            THEN Insert(key, parse_value(input,
                     [Advance(s5, 1) EXCEPT
                         !.current_indent = CountSpaces(input, s5.pos + 1)]))
            ELSE Insert(key, parse_value(input, s5))
        \* at the ':' expected after the key and the blanks that follow it
        Colon_at(key, s4) ==
            IF peek_char(input, s4) # ":"
            THEN Err(<< "Expected ':' after key" >>, s4)
            ELSE Value_at(key, skip_whitespace_same_line(input,
                                                         Advance(s4, 1)))
        Field(key) ==
            IF ~key.ok THEN key
            ELSE Colon_at(key, skip_whitespace_same_line(input, key.st))
    IN IF nl /\ base_indent > 0 /\ s2.current_indent < base_indent
       THEN Ok(Object(map), pop_indent(s2))
       ELSE IF nl /\ peek_char(input, s2) = "\n"
       THEN ObjectLoop(input, s2, base_indent, map)
       ELSE IF ~nl /\ at_end(input, s1) THEN Ok(Object(map), pop_indent(s1))
       ELSE IF at_end(input, s3) \/ peek_char(input, s3) = "\n"
       THEN ObjectLoop(input, s3, base_indent, map)
       ELSE Field(parse_string(input, s3))

parse_object(input, st) ==
    LET base_indent == st.current_indent
        s1 == skip_whitespace_same_line(input, st)
        nl == peek_char(input, s1) = "\n"
        next_indent == CountSpaces(input, s1.pos + 1)
    IN IF nl /\ base_indent > 0 /\ next_indent < base_indent
       THEN Ok(Object(<< >>), s1)
       ELSE IF nl /\ base_indent = 0 /\ next_indent = 0
               /\ ~found_colon(input, s1.pos + 1)
       THEN Ok(Object(<< >>), s1)
       ELSE IF ~nl /\ at_end(input, s1) THEN Ok(Object(<< >>), s1)
       ELSE ObjectLoop(input, push_indent(s1, base_indent), base_indent, << >>)

parse_value(input, st) ==
    LET s1 == skip_whitespace(input, st)
        ch == peek_char(input, s1)
    IN IF ch = "[" THEN parse_array(input, s1)
       ELSE IF ch = "\"" THEN StringResult(parse_string(input, s1))
       ELSE IF ch \in {"t", "f"} THEN BoolResult(parse_bool(input, s1))
       ELSE IF ch = "n" THEN parse_null(input, s1)
       ELSE IF is_ascii_digit(ch) \/ ch = "-"
       THEN NumberResult(parse_number(input, s1))
       ELSE IF at_end(input, s1) THEN Ok(Object(<< >>), s1)
       ELSE IF found_colon(input, s1.pos) THEN parse_object(input, s1)
       ELSE CoercedResult(parse_string(input, s1))

\* A visitor that hands the parsed value over as it is, tables included.
ParsedValueAsIs(v) == v

\* <ToonValue as Deserialize>::deserialize over what the parser produced:
\* a Table, at any depth, is delivered as an Array of Objects.
RECURSIVE ToonValueVisitor(_)
ToonValueVisitor(v) ==
    CASE v.t = "Array" ->
             Array([i \in 1..Len(v.a) |-> ToonValueVisitor(v.a[i])])
      [] v.t = "Object" ->
             Object([i \in 1..Len(v.o) |->
                        Entry(v.o[i].k, ToonValueVisitor(v.o[i].v))])
      [] v.t = "Table" ->
             Array([i \in 1..Len(v.rows) |->
                       Object(RowObject(v.headers,
                                  [j \in 1..Len(v.rows[i]) |->
                                      ToonValueVisitor(v.rows[i][j])],
                                  Len(v.rows[i])))])
      [] OTHER -> v

\* from_str::<ToonValue>; the input left after the value is not looked at.
from_str(s) ==
    LET Deserialized(r) ==
            IF r.ok
            THEN [ok |-> TRUE, v |-> ToonValueVisitor(r.v), err |-> << >>]
            ELSE [ok |-> FALSE, v |-> Null, err |-> r.err]
    IN Deserialized(parse_value(s, Deserializer_from_str))

\* ------------------------------------------------- the arrays the writer emits

\* One array the writer emitted: its elements, the text written for it, the
\* indent_level it was written at, where it stood ("root", "field" of an
\* object, "entry" of a list or "element" of a bracketed array) and which
\* code wrote it ("selector": SeqSerializer::end or write_array_toon;
\* "bracket": the Array arm of write_toon_value_quoted).
Written(arr, text, level, at, by) ==
    [arr |-> arr, text |-> text, level |-> level, at |-> at, by |-> by]

RECURSIVE ArraysWrittenByValue(_, _, _)
RECURSIVE ArraysWrittenByObject(_, _, _)

\* write_list_array: the arrays written inside its entries.
ArraysWrittenByList(elements, options) ==
    UNION { IF elements[i].t = "Object"
            THEN UNION { ArraysWrittenByValue(elements[i].o[j].v, options,
                                              "field") :
                         j \in 1..Len(elements[i].o) }
            ELSE ArraysWrittenByValue(elements[i], options, "entry") :
            i \in 1..Len(elements) }

\* write_array_toon (and SeqSerializer::end, which selects the same way):
\* the array itself and, in list form, the arrays inside its entries.
ArraysWrittenByArray(arr, options, indent_level, at) ==
    { Written(arr, write_array_toon(arr, options, indent_level),
              indent_level, at, "selector") }
    \cup (IF /\ arr # << >>
             /\ ~can_be_tabular(arr).some
             /\ ~(\A i \in 1..Len(arr) : is_primitive_value(arr[i]))
          THEN ArraysWrittenByList(arr, options)
          ELSE {})

\* write_object: the arrays written for its fields.
ArraysWrittenByObject(entries, options, indent_level) ==
    UNION { CASE entries[i].v.t = "Array" ->
                     ArraysWrittenByArray(entries[i].v.a, options,
                                          indent_level, "field")
              [] entries[i].v.t = "Object" ->
                     ArraysWrittenByObject(entries[i].v.o, options,
                                           indent_level + 1)
              [] OTHER -> {} :
            i \in 1..Len(entries) }

\* write_toon_value_quoted: an array is written in brackets, its elements
\* through write_toon_value_quoted again; an object through write_object.
ArraysWrittenByValue(v, options, at) ==
    CASE v.t = "Array" ->
             { Written(v.a, write_toon_value_quoted(v, options), 0, at,
                       "bracket") }
             \cup UNION { ArraysWrittenByValue(v.a[i], options, "element") :
                          i \in 1..Len(v.a) }
      [] v.t = "Object" -> ArraysWrittenByObject(v.o, options, 0)
      [] OTHER -> {}

\* Every array to_string_with_options(v, options) emits.
ArraysWritten(v, options) ==
    CASE v.t = "Array" ->
             ArraysWrittenByArray(to_toon_value(v).a, options, 0, "root")
      [] v.t = "Object" ->
             ArraysWrittenByObject(to_toon_value(v).o, options, 0)
      [] OTHER -> {}

\* ----------------------------------------------------------------- inputs

\* The characters the enumerated strings are built from: a letter, the
\* first letter of "true", a digit, a sign, a space, the three delimiters'
\* printable forms ',' and '|', the key separator and a closing bracket.
CoreChars == {"a", "t", "1", "-", " ", ",", "|", ":", "]"}

\* Every text over CoreChars of length at most n.
RECURSIVE TextsUpTo(_)
TextsUpTo(n) ==
    IF n = 0 THEN {<< >>}
    ELSE LET shorter == TextsUpTo(n - 1)
         IN shorter \cup {Append(s, c) : s \in {p \in shorter : Len(p) = n - 1},
                                         c \in CoreChars}

\* Strings picked for the cases the quoting rules and the readers name.
ExtraTexts ==
    { << "t", "r", "u", "e" >>, << "f", "a", "l", "s", "e" >>,
      << "n", "u", "l", "l" >>, << "t", "o", "m" >>, << "f", "o", "x" >>,
      << "n", "o" >>, << "x" >>, << "h", "e", "l", "l", "o" >>,
      << "a", ",", "b" >>, << "a", "|", "b" >>, << "a", "\t", "b" >>,
      << "-", " ", "a" >>, << "[", "a", "]" >>, << "{", "a", "}" >>,
      << "[", "a" >>, << "a", "}" >>, << "a", "\r", "b" >>,
      << "a", "\n", "b" >>, << "a", "\"" >>, << "a", "\\", "b" >>,
      << "a", "NUL" >>, << "BS" >>, << "FF", "a" >>,
      << "BS", ":" >>, << ":", "FF" >>, << "a", "BS", "\\", "FF", "b" >>,
      << "\"", "\\", "\n", "\r", "\t", "BS", "FF", "NUL" >>,
      << "1", ".", "5" >>, << "-", "1" >>, << "1", "e", "1" >>,
      << ".", "5" >>, << "i", "n", "f" >>, << "N", "a", "N" >>,
      << "+", "1" >>, << "1", "a" >>, << "a", "#" >>,
      << "\\", "n" >>, << "a", "\\" >>, << "\\", "u", "0", "0", "4", "1" >> }

Texts == TextsUpTo(MaxStrLen) \cup ExtraTexts

\* The positions at which a string is serialized.
AtRoot(s) == String(s)
AtField(s) == Object(<< Entry(<< "x" >>, String(s)) >>)
AtElement(s) == Array(<< String(s), String(<< "b" >>) >>)
AtCell(s) ==
    Array(<< Object(<< Entry(<< "x" >>, String(s)),
                       Entry(<< "y" >>, String(<< "b" >>)) >>) >>)

StringValues ==
    UNION {{AtRoot(s), AtField(s), AtElement(s), AtCell(s)} : s \in Texts}

\* Primitive values other than the enumerated strings.
Primitives ==
    { Null, Bool(TRUE), Bool(FALSE), Number(Integer(1)), Number(Integer(0 - 1)),
      Number(Float(15, 1)), Number(Float(1, 0)), Number(Infinity),
      Number(NegativeInfinity), Number(NaN), Number(FloatInf),
      Date(0), BigInt(1) }

One == Number(Integer(1))
StrA == String(<< "a" >>)
KeyX == << "x" >>
KeyY == << "y" >>

\* The elements arrays are built from: primitives, objects whose key sets
\* are equal or differ, whose keys were inserted in either order, and
\* whose fields are primitive or not, and arrays of each form.
LeafElements == {Null, One, StrA, String(<< "x", ",", "y" >>)}

ObjectElements ==
    { Object(<< >>),
      Object(<< Entry(KeyX, One) >>),
      Object(<< Entry(KeyX, StrA) >>),
      Object(<< Entry(KeyY, One) >>),
      Object(<< Entry(KeyX, One), Entry(KeyY, StrA) >>),
      Object(<< Entry(KeyY, StrA), Entry(KeyX, One) >>),
      Object(<< Entry(KeyX, Array(<< One >>)) >>),
      Object(<< Entry(KeyX, Object(<< Entry(KeyY, One) >>)) >>),
      Object(<< Entry(KeyX, Array(<< Object(<< Entry(KeyY, One) >>),
                                     Object(<< Entry(KeyY, StrA) >>) >>)) >>) }

ArrayElements ==
    { Array(<< >>), Array(<< One, StrA >>), Array(<< Array(<< One >>) >>) }

Elements == LeafElements \cup ObjectElements \cup ArrayElements

\* Every sequence over S of length at most n.
RECURSIVE SeqsUpTo(_, _)
SeqsUpTo(S, n) ==
    IF n = 0 THEN {<< >>}
    ELSE LET shorter == SeqsUpTo(S, n - 1)
         IN shorter \cup {Append(s, e) : s \in {p \in shorter : Len(p) = n - 1},
                                         e \in S}

Arrays == {Array(a) : a \in SeqsUpTo(Elements, MaxArrLen)}

\* An array as the root value, as a field of the root object and as a
\* field of an object nested in the root object.
ArrayValues ==
    Arrays
    \cup {Object(<< Entry(KeyX, arr) >>) : arr \in Arrays}
    \cup {Object(<< Entry(KeyY, Object(<< Entry(KeyX, arr) >>)),
                    Entry(KeyX, One) >>) : arr \in Arrays}

\* Keys that are bare identifiers and keys that are not.
KeyTexts ==
    { << >>, << "1", "a" >>, << "a", "-", "b" >>, << "a", " ", "b" >>,
      << "a", ":", "b" >>, << "a", ",", "b" >>, << "a", "\n", "b" >>,
      << "a", "b" >>, << "_", "a" >>, << "a", ".", "b" >>, << "a", "1" >>,
      << "T", "a" >> }

\* An object with the key k, and a tabular-eligible array with the header k.
KeyedObject(k) == Object(<< Entry(k, One) >>)
KeyedTable(k) == Array(<< Object(<< Entry(k, One), Entry(KeyY, StrA) >>) >>)

KeyedValues == UNION {{KeyedObject(k), KeyedTable(k)} : k \in KeyTexts}

\* A non-finite number as an object field value and as an array element.
NonFiniteNumbers == {Number(Infinity), Number(NegativeInfinity), Number(NaN)}

NonFiniteValues ==
    UNION {{Object(<< Entry(KeyX, n) >>), Array(<< n, One >>)} :
              n \in NonFiniteNumbers}

Values ==
    StringValues \cup Primitives \cup ArrayValues \cup KeyedValues
        \cup NonFiniteValues

OptionsSet ==
    { DefaultOptions,
      ToonOptions(2, "Tab", << >>, FALSE),
      ToonOptions(2, "Pipe", << >>, FALSE),
      ToonOptions(2, "Comma", << "#" >>, FALSE),
      ToonOptions(2, "Comma", << "-" >>, FALSE),
      ToonOptions(2, "Comma", << "1" >>, FALSE),
      ToonOptions(4, "Pipe", << >>, TRUE) }

\* ----------------------------------------------------------- state machine

\* value and options: what to_string_with_options is given; output: the
\* text it returned; error: the Err it returned instead; parsed: what
\* from_str returned for the text; deserializer: the Deserializer of a
\* from_str call that is followed call by call; frames: the calls of that
\* Deserializer that have not returned, the innermost last.
VARIABLES value, options, output, error, parsed, pc, deserializer, frames

vars ==
    << value, options, output, error, parsed, pc, deserializer, frames >>

NotParsed == [ok |-> FALSE, v |-> Null, err |-> << >>]

NoError == [kind |-> "None", msg |-> ""]

\* A value and options are chosen; nothing has been written or read.
Init ==
    /\ value \in Values
    /\ options \in OptionsSet
    /\ output = << >>
    /\ error = NoError
    /\ parsed = NotParsed
    /\ deserializer = Deserializer_from_str
    /\ frames = << >>
    /\ pc = "start"

\* to_string_with_options(&value, options)
Serialize ==
    /\ pc = "start"
    /\ output' = to_string_with_options(value, options)
    /\ pc' = "serialized"
    /\ UNCHANGED << value, options, error, parsed, deserializer, frames >>

\* from_str::<ToonValue>(&output)
Parse ==
    /\ pc = "serialized"
    /\ parsed' = from_str(output)
    /\ pc' = "parsed"
    /\ UNCHANGED << value, options, output, error, deserializer, frames >>

Next == Serialize \/ Parse

Spec == Init /\ [][Next]_vars

\* ------------------------------------------------------------- properties

\* No Infinity, NegativeInfinity or NaN anywhere in the tree.
RECURSIVE IsFiniteTree(_)
IsFiniteTree(v) ==
    CASE v.t = "Number" ->
             v.n.k = "Integer" \/ (v.n.k = "Float" /\ v.n.sp \in {"fin", "-0"})
      [] v.t = "Array" -> \A i \in 1..Len(v.a) : IsFiniteTree(v.a[i])
      [] v.t = "Object" -> \A i \in 1..Len(v.o) : IsFiniteTree(v.o[i].v)
      [] v.t = "Table" ->
             \A i \in 1..Len(v.rows) :
                 \A j \in 1..Len(v.rows[i]) : IsFiniteTree(v.rows[i][j])
      [] OTHER -> TRUE

\* C1: for every value tree V without Infinity, NegativeInfinity or NaN,
\* parsing the text the writer produces for V under default options yields
\* a value equal to V.
C1_RoundTrip ==
    (pc = "parsed" /\ options = DefaultOptions /\ IsFiniteTree(value))
        => (parsed.ok /\ ValueEq(parsed.v, value))

\* A value that does make the round trip of C1.
C1_RoundTripReached ==
    /\ pc = "parsed" /\ options = DefaultOptions
    /\ value \in Arrays /\ Len(value.a) = MaxArrLen
    /\ parsed.ok /\ ValueEq(parsed.v, value)

\* The positions C2 names: object field value, array element, table cell.
NestedPositions(s) == {AtField(s), AtElement(s), AtCell(s)}

\* C2: a string the writer emits unquoted under the active delimiter as an
\* object field value, array element or table cell is read back as exactly
\* that string at that position: not truncated, not coerced, not rejected.
C2_UnquotedReadBack ==
    \A s \in Texts :
        (/\ pc = "parsed"
         /\ value \in NestedPositions(s)
         /\ ~needs_quotes_toon(s, options))
            => (parsed.ok /\ ValueEq(parsed.v, value))

\* The lower-case letters: characters no quoting condition names.
IsLetter(c) ==
    c \in {"a", "b", "c", "d", "e", "f", "g", "h", "i", "j", "k", "l", "m",
           "n", "o", "p", "q", "r", "s", "t", "u", "v", "w", "x", "y", "z"}

\* A string whose only special characters are ',' or '|'.
OnlyDelimiterSpecial(s) ==
    /\ \A i \in 1..Len(s) : IsLetter(s[i]) \/ s[i] \in {",", "|"}
    /\ \E i \in 1..Len(s) : s[i] \in {",", "|"}

AllPositions(s) == {AtRoot(s), AtField(s), AtElement(s), AtCell(s)}

\* The quoted form of s is part of the output.
EmittedQuoted(s) == ContainsSub(output, << "\"" >> \o Escape(s) \o << "\"" >>)

\* s is part of the output and its quoted form is not.
EmittedUnquoted(s) == ContainsSub(output, s) /\ ~EmittedQuoted(s)

\* C5: under every options and at every position (root value, object field
\* value, array element, table cell) a string whose only special characters
\* are ',' or '|' is emitted unquoted when it holds no active delimiter, and
\* quoted when it holds the active delimiter.
C5_DelimiterIsolation ==
    \A s \in Texts :
        (/\ pc # "start"
         /\ value \in AllPositions(s)
         /\ OnlyDelimiterSpecial(s))
            => IF ContainsSub(s, as_str(options.delimiter))
               THEN EmittedQuoted(s)
               ELSE EmittedUnquoted(s)

\* The quoting conditions as the specification lists them.
QuotingCondition(s, delimiter) ==
    \/ s = << >>
    \/ s[1] = " " \/ s[Len(s)] = " "
    \/ \E i \in 1..Len(s) : s[i] \in {":", "\"", "\\", "\n", "\r", "\t", "NUL"}
    \/ ContainsSub(s, as_str(delimiter))
    \/ s \in { << "t", "r", "u", "e" >>, << "f", "a", "l", "s", "e" >>,
               << "n", "u", "l", "l" >> }
    \/ ParseF64(s).ok \/ ParseI64(s).ok
    \/ (Len(s) >= 2 /\ s[1] = "-" /\ s[2] = " ")
    \/ (s[1] = "[" /\ \E i \in 1..Len(s) : s[i] = "]")
    \/ (s[1] = "{" /\ \E i \in 1..Len(s) : s[i] = "}")

\* C6: a string that meets at least one quoting condition is emitted in
\* quoted form at every position where a string is serialized, the root
\* value included.
C6_QuotedEverywhere ==
    \A s \in Texts :
        (/\ pc # "start"
         /\ value \in AllPositions(s)
         /\ QuotingCondition(s, options.delimiter))
            => EmittedQuoted(s)

\* The text recorded for each emitted array is part of the output.
WrittenArraysAppear ==
    pc # "start" =>
        \A w \in ArraysWritten(value, options) : ContainsSub(output, w.text)

KeySet(o) == {o[i].k : i \in 1..Len(o)}

\* Null/Bool/Number/String/Date/BigInt, as the specification lists them.
IsPrimitive(v) ==
    v.t \in {"Null", "Bool", "Number", "String", "Date", "BigInt"}

AllPrimitive(arr) == \A i \in 1..Len(arr) : IsPrimitive(arr[i])

\* Every element is an object and all have the key set of the first.
SameKeyObjects(arr) ==
    /\ arr # << >>
    /\ \A i \in 1..Len(arr) :
           arr[i].t = "Object" /\ KeySet(arr[i].o) = KeySet(arr[1].o)

\* The fields (element, field index) whose value is an array or an object.
CompositeFields(arr) ==
    { ij \in UNION {{<< i, j >> : j \in 1..Len(arr[i].o)} : i \in 1..Len(arr)} :
          arr[ij[1]].o[ij[2]].v.t \in {"Array", "Object"} }

\* Objects sharing one key set, every field value primitive.
TabularEligible(arr) ==
    /\ SameKeyObjects(arr)
    /\ \A i \in 1..Len(arr) :
           \A j \in 1..Len(arr[i].o) : IsPrimitive(arr[i].o[j].v)

\* A tabular-eligible array in which one field value was replaced by an
\* array or an object.
OneFieldReplaced(arr) ==
    /\ SameKeyObjects(arr)
    /\ Cardinality(CompositeFields(arr)) = 1
    /\ \A i \in 1..Len(arr) :
           \A j \in 1..Len(arr[i].o) :
               IsPrimitive(arr[i].o[j].v) \/ << i, j >> \in CompositeFields(arr)

\* The text opens with the tabular header of an n-element array.
IsTabularForm(text, n, opts) ==
    StartsWith(text, << "[" >> \o opts.length_marker \o NatToText(n)
                         \o HeaderSuffix(opts) \o << "]", "{" >>)

\* The text opens with the list header of an n-element array and its first
\* entry follows on the next line behind "- ".
IsListForm(text, n, opts) ==
    LET header == << "[" >> \o opts.length_marker \o NatToText(n)
                      \o << "]", ":", "\n" >>
    IN /\ StartsWith(text, header)
       /\ StartsWith(TrimStart(SubSeq(text, Len(header) + 1, Len(text))),
                     << "-", " " >>)

\* C3: a non-empty array that is the root value or the value of an object
\* field is emitted in tabular form when all its elements are objects with
\* the same key set and only primitive field values, and in list form when
\* one field value of such an array is replaced by an array or an object.
C3_TabularEligibility ==
    pc # "start" =>
        \A w \in ArraysWritten(value, options) :
            w.at \in {"root", "field"} =>
                /\ TabularEligible(w.arr)
                       => IsTabularForm(w.text, Len(w.arr), options)
                /\ OneFieldReplaced(w.arr)
                       => IsListForm(w.text, Len(w.arr), options)

\* The keys of K in ascending lexicographic order.
AscendingKeys(K) ==
    CHOOSE hs \in [1..Cardinality(K) -> K] :
        \A i, j \in 1..Cardinality(K) : i < j => TextLess(hs[i], hs[j])

\* The header line and the row lines the specification gives the tabular
\* form of arr, the rows indented as the writer indents them.
TabularLayoutHolds(w, opts) ==
    LET hs == AscendingKeys(KeySet(w.arr[1].o))
        lines == SplitLines(w.text)
        N == Len(w.arr)
    IN /\ lines[1] = << "[" >> \o opts.length_marker \o NatToText(N)
                        \o HeaderSuffix(opts) \o << "]", "{" >>
                        \o HeadersStr(hs, opts) \o << "}", ":" >>
       /\ Len(lines) = N + 1
       /\ \A i \in 1..N :
              lines[i + 1] =
                  Repeat(" ", (w.level + 1) * opts.indent)
                      \o Join([j \in 1..Len(hs) |->
                                 write_toon_value_quoted(Get(w.arr[i].o, hs[j]),
                                                         opts)],
                              as_str(opts.delimiter))

\* C4: in tabular form the header line is [N]{h1,...,hk}: with N the number
\* of elements and h1..hk the common keys in ascending lexicographic order,
\* whatever the insertion order of the keys in any element; exactly N row
\* lines follow, the i-th listing the i-th element's values in header order.
C4_TabularLayout ==
    pc # "start" =>
        \A w \in ArraysWritten(value, options) :
            (TabularEligible(w.arr) /\ IsTabularForm(w.text, Len(w.arr), options))
                => TabularLayoutHolds(w, options)

\* The same for the arrays none of whose keys holds a line break.
C4_TabularLayoutOneLineKeys ==
    pc # "start" =>
        \A w \in ArraysWritten(value, options) :
            (/\ TabularEligible(w.arr)
             /\ IsTabularForm(w.text, Len(w.arr), options)
             /\ \A k \in KeySet(w.arr[1].o) : ~Contains(k, "\n"))
                => TabularLayoutHolds(w, options)

\* A two-row table is written whose first element had its keys inserted in
\* descending order.
C4_TabularWritten ==
    /\ pc # "start"
    /\ \E w \in ArraysWritten(value, options) :
           /\ TabularEligible(w.arr)
           /\ IsTabularForm(w.text, Len(w.arr), options)
           /\ Len(w.arr) = MaxArrLen
           /\ Len(w.arr[1].o) = 2
           /\ TextLess(w.arr[1].o[2].k, w.arr[1].o[1].k)

\* C7: under default options an array of N >= 1 primitive values is emitted
\* on one line as "[N]: " and the N values, each quoted where the quoting
\* rules ask for it, joined by ","; the empty array is emitted as "[0]:".
C7_InlineForm ==
    (pc # "start" /\ options = DefaultOptions) =>
        \A w \in ArraysWritten(value, options) :
            /\ w.arr = << >> => w.text = << "[", "0", "]", ":" >>
            /\ (w.arr # << >> /\ AllPrimitive(w.arr)) =>
                   w.text = << "[" >> \o NatToText(Len(w.arr))
                               \o << "]", ":", " " >>
                               \o Join([i \in 1..Len(w.arr) |->
                                          write_toon_value_quoted(w.arr[i],
                                                                  options)],
                                       << "," >>)

\* One list entry, behind its "- ", as the specification lays it out: an
\* object's first field on the line of the dash, each further field on a
\* line of its own two columns past the dash, in ascending key order.
ExpectedEntry(element, opts, level) ==
    IF element.t = "Object"
    THEN LET ks == AscendingKeys(KeySet(element.o))
             Field(i) == ks[i] \o << ":", " " >>
                            \o write_toon_value_quoted(Get(element.o, ks[i]),
                                                       opts)
         IN IF ks = << >> THEN << >>
            ELSE Field(1)
                   \o Flatten([i \in 1..(Len(ks) - 1) |->
                         << "\n" >>
                             \o Repeat(" ", (level + 1) * opts.indent + 2)
                             \o Field(i + 1)])
    ELSE write_toon_value_quoted(element, opts)

\* The list form of arr: the header [N]: and one entry per element, each on
\* a new line behind (level + 1) * indent spaces and "- ".
ExpectedList(arr, opts, level) ==
    << "[" >> \o opts.length_marker \o NatToText(Len(arr)) \o << "]", ":" >>
        \o Flatten([i \in 1..Len(arr) |->
              << "\n" >> \o Repeat(" ", (level + 1) * opts.indent)
                  \o << "-", " " >> \o ExpectedEntry(arr[i], opts, level)])

\* C8: a non-empty array that is neither tabular-eligible nor all-primitive
\* is emitted as the header [N]: followed by one entry per element in
\* element order, each on a new line behind (indent_level+1)*indent spaces
\* and "- ", an object entry's fields in ascending key order, the first on
\* the line of the dash and the others two columns past the dash.
C8_ListForm ==
    pc # "start" =>
        \A w \in ArraysWritten(value, options) :
            (/\ w.arr # << >>
             /\ ~TabularEligible(w.arr)
             /\ ~AllPrimitive(w.arr))
                => w.text = ExpectedList(w.arr, options, w.level)

\* The text opens with a header [<marker?>N<suffix?>] that is followed by
\* ':' or '{'.
HasLengthHeader(text, n, opts) ==
    \E marker \in {<< >>, opts.length_marker},
       suffix \in {<< >>, << " ", " ", " ", " " >>, << "|" >>} :
        LET header == << "[" >> \o marker \o NatToText(n)
                          \o suffix \o << "]" >>
        IN /\ StartsWith(text, header)
           /\ Len(text) > Len(header)
           /\ text[Len(header) + 1] \in {":", "{"}

\* C9: an array that is an entry of a list-form array, or a field of an
\* object entry, is emitted through the format selector with its own [N]
\* header; hence every array the writer emits, at any nesting depth,
\* begins with a header [<marker?>N...] in which N is its element count.
C9_EveryArrayHasHeader ==
    pc # "start" =>
        \A w \in ArraysWritten(value, options) :
            HasLengthHeader(w.text, Len(w.arr), options)

\* The header names and the rows of cells of a tabular-eligible array.
TableOf(arr) ==
    LET hs == AscendingKeys(KeySet(arr[1].o))
    IN Table(hs, [i \in 1..Len(arr) |->
                    [j \in 1..Len(hs) |-> Get(arr[i].o, hs[j])]])

\* C10: for each delimiter and every inline or tabular array, the parser,
\* taking the delimiter from the header of the text the writer produced
\* under that delimiter, returns the same data: for a tabular array the
\* same header names and the same N rows of cells, for an inline array the
\* same N elements.
C10_DelimiterRecovered ==
    (pc = "parsed" /\ value.t = "Array") =>
        LET r == parse_value(output, Deserializer_from_str)
        IN /\ TabularEligible(value.a)
                  => (r.ok /\ r.v = TableOf(value.a))
           /\ (value.a # << >> /\ AllPrimitive(value.a))
                  => (r.ok /\ r.v = Array(value.a))

\* The options with the length marker taken away.
WithoutMarker(opts) == [opts EXCEPT !.length_marker = << >>]

\* C11: for every character configured as the length marker, the header
\* the writer emits is accepted by the parser with the declared length N,
\* and what is parsed equals what is parsed from the same text written
\* without the marker.
C11_MarkerAccepted ==
    (pc = "parsed" /\ options.length_marker # << >> /\ value.t = "Array") =>
        parsed = from_str(to_string_with_options(value,
                                                 WithoutMarker(options)))

\* An array with elements was written under a length marker and read.
C11_MarkerWritten ==
    /\ pc = "parsed"
    /\ options.length_marker # << >>
    /\ value.t = "Array"
    /\ value.a # << >>
    /\ StartsWith(output, << "[" >> \o options.length_marker)

\* A letter, in either case.
IsAlphabetic(c) == IsLetter(Lower(c))

\* The identifier pattern of keys: a letter or '_', then letters, digits,
\* '_' or '.'.
IsBareIdentifier(k) ==
    /\ k # << >>
    /\ IsAlphabetic(k[1]) \/ k[1] = "_"
    /\ \A i \in 2..Len(k) :
           IsAlphabetic(k[i]) \/ is_ascii_digit(k[i]) \/ k[i] \in {"_", "."}

\* C14: every object key and every tabular header name that is not a bare
\* identifier is emitted in quoted, escaped form, and the parser reads the
\* emitted key back as the same key.
C14_KeysQuoted ==
    \A k \in KeyTexts :
        (/\ pc = "parsed"
         /\ value \in {KeyedObject(k), KeyedTable(k)}
         /\ ~IsBareIdentifier(k))
            => /\ ContainsSub(output, Quoted(k))
               /\ parsed.ok
               /\ ValueEq(parsed.v, value)

\* An object whose key is not a bare identifier was written and read.
C14_KeyWritten ==
    /\ pc = "parsed"
    /\ \E k \in KeyTexts :
           ~IsBareIdentifier(k) /\ k # << >> /\ value = KeyedObject(k)
                                /\ ContainsSub(output, k)

\* C15: a number that is Infinity, NegativeInfinity or NaN, as the root
\* value, an object field value or an array element, is written as null
\* under default options.
C15_NonFiniteAsNull ==
    \A n \in NonFiniteNumbers :
        (pc # "start" /\ options = DefaultOptions) =>
            /\ value = n => output = << "n", "u", "l", "l" >>
            /\ value = Object(<< Entry(KeyX, n) >>)
                   => output = << "x", ":", " ", "n", "u", "l", "l" >>
            /\ value = Array(<< n, One >>)
                   => output = << "[", "2", "]", ":", " ",
                                  "n", "u", "l", "l", ",", "1" >>

\* A non-finite number was written under default options.
C15_NonFiniteWritten ==
    /\ pc # "start" /\ options = DefaultOptions
    /\ value \in NonFiniteNumbers \cup NonFiniteValues

\* The same tree with the entries of every object in ascending key order.
RECURSIVE SortedTree(_)
SortedTree(v) ==
    CASE v.t = "Array" -> Array([i \in 1..Len(v.a) |-> SortedTree(v.a[i])])
      [] v.t = "Object" ->
             Object(SortEntries([i \in 1..Len(v.o) |->
                                    Entry(v.o[i].k, SortedTree(v.o[i].v))]))
      [] OTHER -> v

\* C16: the fields of every object are emitted in ascending alphabetical
\* key order, whatever the order in which the keys were inserted: the text
\* is the one written for the tree whose objects hold their keys in
\* ascending order, and the text of a root object starts with its least key.
C16_FieldsAscending ==
    pc # "start" =>
        /\ output = to_string_with_options(SortedTree(value), options)
        /\ (value.t = "Object" /\ value.o # << >>)
               => StartsWith(output, SortEntries(value.o)[1].k \o << ":" >>)

\* An object whose keys were inserted in descending order was written.
C16_DescendingWritten ==
    /\ pc # "start"
    /\ value.t = "Object" /\ Len(value.o) = 2
    /\ TextLess(value.o[2].k, value.o[1].k)

\* ------------------------------------------------ texts given to from_str

\* A field line `k: v`, k being the key as it is written in the text.
FieldLine(written, v) == written \o << ":", " " >> \o v

\* The line as the first field of the root object, of the body of a nested
\* object (the value of the field `o`) and of a list entry.
RootField(line) == line
NestedField(line) == << "o", ":", "\n", " ", " " >> \o line
EntryField(line) == << "[", "1", "]", ":", "\n", " ", " ", "-", " " >> \o line

\* Keys the grammar allows as bare identifiers.
BareKeys ==
    { << "n", "a", "m", "e" >>,
      << "t", "i", "t", "l", "e" >>,
      << "x" >>,
      << "_", "a" >>,
      << "a", ".", "b" >>,
      << "k", "1" >>,
      << "f" >>,
      << "n" >>,
      << "t" >>,
      << "a", "b" >>,
      << "T", "b" >>,
      << "f", "i", "r", "s", "t" >> }

\* Keys written in quoted form.
QuotedKeys ==
    { << "a", " ", "b" >>,
      << "x" >> }

\* A key and the way it is written in the text.
WrittenKey(k, w) == [k |-> k, w |-> w]

GrammarKeys ==
    {WrittenKey(k, k) : k \in BareKeys}
        \cup {WrittenKey(k, Quoted(k)) : k \in QuotedKeys}

FieldValueTexts == { << "1" >>, << "v" >> }

FieldTexts ==
    UNION {{RootField(FieldLine(gk.w, v)),
            NestedField(FieldLine(gk.w, v)),
            EntryField(FieldLine(gk.w, v))} :
               gk \in GrammarKeys, v \in FieldValueTexts}

\* Tabular arrays (and two texts without one):
\*   [2]{a,b}:\n  1,2\n  3,4
\*   [1]{x}:\n  1
\*   [2]{x,x}:\n  1,2\n  3,4
\*   [3]{a}:\n  1
\*   k: [1]{a,b}:\n  1,x
\*   [1]:\n  - [1]{a}:\n    1
\*   [2|]{a|b}:\n  1|2\n  3|4
\*   [0]{a}:
\*   [1]{a,b,a}:\n  1,2,3
\*   [2]: 1,2
\*   x: 1
TableTexts ==
    { << "[", "2", "]", "{", "a", ",", "b", "}", ":", "\n", " ", " ", "1", ",", "2", "\n", " ", " ", "3", ",", "4" >>,
      << "[", "1", "]", "{", "x", "}", ":", "\n", " ", " ", "1" >>,
      << "[", "2", "]", "{", "x", ",", "x", "}", ":", "\n", " ", " ", "1", ",", "2", "\n", " ", " ", "3", ",", "4" >>,
      << "[", "3", "]", "{", "a", "}", ":", "\n", " ", " ", "1" >>,
      << "k", ":", " ", "[", "1", "]", "{", "a", ",", "b", "}", ":", "\n", " ", " ", "1", ",", "x" >>,
      << "[", "1", "]", ":", "\n", " ", " ", "-", " ", "[", "1", "]", "{", "a", "}", ":", "\n", " ", " ", " ", " ", "1" >>,
      << "[", "2", "|", "]", "{", "a", "|", "b", "}", ":", "\n", " ", " ", "1", "|", "2", "\n", " ", " ", "3", "|", "4" >>,
      << "[", "0", "]", "{", "a", "}", ":" >>,
      << "[", "1", "]", "{", "a", ",", "b", ",", "a", "}", ":", "\n", " ", " ", "1", ",", "2", ",", "3" >>,
      << "[", "2", "]", ":", " ", "1", ",", "2" >>,
      << "x", ":", " ", "1" >> }
\* Nested objects `a:`, `  b:`, ... each opened on its own line, depth of
\* them, then one field line of the innermost object and the line `e: 3` at
\* indentation 2 * level: DedentText(2, 0) is
\*   a:\n  b:\n    c: 1\ne: 3
MaxDepth == 3

ChainKeys == << "a", "b", "c", "d", "g", "h" >>

Three == Number(Integer(3))

OpeningLine(i) == Repeat(" ", 2 * (i - 1)) \o << ChainKeys[i], ":", "\n" >>

DedentText(depth, level) ==
    Flatten([i \in 1..depth |-> OpeningLine(i)])
        \o Repeat(" ", 2 * depth)
        \o << ChainKeys[depth + 1], ":", " ", "1", "\n" >>
        \o Repeat(" ", 2 * level) \o << "e", ":", " ", "3" >>

DedentTexts ==
    {DedentText(depth, level) : depth \in {2, MaxDepth}, level \in 0..MaxDepth}

\* List-form arrays of objects: entries of them, the i-th one holding the
\* first fields of `x: i`, `y: i`, the first field on the `- ` line and the
\* others on lines indented two columns past the dash: ListText(2, 2) is
\*   [2]:\n  - x: 1\n    y: 1\n  - x: 2\n    y: 2
MaxEntries == 2

ListFieldKeys == << "x", "y" >>

ListFieldLine(j, i) == << ListFieldKeys[j], ":", " " >> \o NatToText(i)

ListEntryText(i, fields) ==
    << "\n", " ", " ", "-", " " >> \o ListFieldLine(1, i)
        \o Flatten([j \in 1..(fields - 1) |->
                       << "\n", " ", " ", " ", " " >> \o ListFieldLine(j + 1, i)])

ListText(entries, fields) ==
    << "[" >> \o NatToText(entries) \o << "]", ":" >>
        \o Flatten([i \in 1..entries |-> ListEntryText(i, fields)])

ListTexts ==
    {ListText(entries, fields) :
        entries \in 1..MaxEntries, fields \in 1..Len(ListFieldKeys)}

\* A key with nothing after its colon, inside depth nested objects `a:`,
\* `  b:`, ..., and then the line `y: 1` at indentation 2 * level:
\* KeyOnlyText(1, 1) is
\*   a:\n  x:\n  y: 1
KeyOnlyText(depth, level) ==
    Flatten([i \in 1..depth |-> OpeningLine(i)])
        \o Repeat(" ", 2 * depth) \o << "x", ":", "\n" >>
        \o Repeat(" ", 2 * level) \o << "y", ":", " ", "1" >>

KeyOnlyTexts ==
    {KeyOnlyText(depth, level) :
        depth \in 0..(MaxDepth - 1), level \in 0..MaxDepth}

\* Arrays that declare the length declared and supply supplied elements or
\* rows, in the three forms: CountedText(f, 2, 1) is
\*   [2]: 1          (inline)
\*   [2]:\n  - 1     (list)
\*   [2]{a,b}:\n  1,1  (table)
ArrayForms == {"inline", "list", "table"}

CountedHead(form, declared) ==
    << "[" >> \o NatToText(declared) \o << "]" >>
        \o (IF form = "table" THEN << "{", "a", ",", "b", "}", ":" >>
            ELSE IF form = "inline" THEN << ":", " " >>
            ELSE << ":" >>)

CountedItem(form, i) ==
    IF form = "inline"
    THEN (IF i > 1 THEN << "," >> ELSE << >>) \o NatToText(i)
    ELSE IF form = "list"
    THEN << "\n", " ", " ", "-", " " >> \o NatToText(i)
    ELSE << "\n", " ", " " >> \o NatToText(i) \o << "," >> \o NatToText(i)

CountedText(form, declared, supplied) ==
    CountedHead(form, declared)
        \o Flatten([i \in 1..supplied |-> CountedItem(form, i)])

CountedTexts ==
    {CountedText(form, declared, supplied) :
        form \in ArrayForms,
        declared \in 1..MaxEntries,
        supplied \in 0..MaxEntries}

\* Tokens that begin with one of the words true, false and null, alone in
\* the text and as the only entry of a list: `trueish`, `[1]:\n  - trueish`.
LiteralWords ==
    { << "t", "r", "u", "e" >>,
      << "f", "a", "l", "s", "e" >>,
      << "n", "u", "l", "l" >> }

TokenTails == { << >>, << "i", "s", "h" >>, << "1" >>, << "_", "x" >> }

TokenPlaces == {"root", "entry"}

TokenAt(place, token) ==
    IF place = "root" THEN token
    ELSE << "[", "1", "]", ":", "\n", " ", " ", "-", " " >> \o token

TokenTexts ==
    {TokenAt(place, w \o tail) :
        place \in TokenPlaces, w \in LiteralWords, tail \in TokenTails}

\* Lines that start with a letter and hold a double-quoted segment, with a
\* colon inside the quotes or with none at all, as the whole text and as the
\* value of the field `x`:
\*   a "b:c"      say "1:2" ok      _"::"      a "bc"
ColonInQuotes ==
    { << "a", " ", "\"", "b", ":", "c", "\"" >>,
      << "s", "a", "y", " ", "\"", "1", ":", "2", "\"", " ", "o", "k" >>,
      << "_", "\"", ":", ":", "\"" >> }

NoColon == { << "a", " ", "\"", "b", "c", "\"" >> }

ScalarPlaces == {"root", "field"}

ScalarAt(place, line) ==
    IF place = "root" THEN line ELSE << "x", ":", " " >> \o line

ScalarTexts ==
    {ScalarAt(place, line) :
        place \in ScalarPlaces, line \in ColonInQuotes \cup NoColon}

\* A complete value and then more text on the same line:
\*   12ab      -5 x      "a"b      1 2
TrailingTexts ==
    { << "1", "2", "a", "b" >>,
      << "-", "5", " ", "x" >>,
      << "\"", "a", "\"", "b" >>,
      << "1", " ", "2" >> }

\* Objects with a blank line between two fields, a newline after the last
\* field, or blanks alone on the last line.
BlankLineTexts ==
    { << "x", ":", " ", "1", "\n", "\n", "y", ":", " ", "2" >>,
      << "x", ":", " ", "1", "\n" >>,
      << "x", ":", " ", "1", "\n", " ", " " >>,
      << "o", ":", "\n", " ", " ", "x", ":", " ", "1", "\n", "\n",
         " ", " ", "y", ":", " ", "2", "\n" >> }

\* Tables whose header names no field, followed by lines the row loop
\* meets: `[2]{}:` and then `x`, or nothing.
EmptyHeaderTexts ==
    { << "[", "2", "]", "{", "}", ":", "\n", "x" >>,
      << "[", "2", "]", "{", "}", ":", "\n" >>,
      << "[", "2", "]", "{", "}", ":" >> }

\* Numbers written with a sign before a zero; tokens that reach
\* str::parse::<f64> with an exponent, below the smallest subnormal f64,
\* between two subnormals and above f64::MAX; strings with \u escapes of
\* characters outside Ascii, of letters of Ascii next to the letters
\* written plainly, and with an escape cut short.
SignAndEscapeTexts ==
    { << "-", "0", ".", "0" >>, << "-", "0" >>, << "0", ".", "0" >>,
      << "x", ":", " ", "+", "1", "e", "-", "4", "0", "0" >>,
      << "x", ":", " ", "+", "3", "e", "-", "3", "2", "4" >>,
      << "x", ":", " ", "+", "1", "e", "4", "0", "0" >>,
      << "\"", "\\", "u", "0", "0", "e", "9", "\"" >>,
      << "\"", "\\", "u", "0", "0", "e", "a", "\"" >>,
      << "\"", "\\", "u", "0", "0", "a", "0", "\"" >>,
      << "\"", "\\", "u", "0", "0", "7", "6", "\"" >>, << "\"", "v", "\"" >>,
      << "\"", "\\", "u", "0", "0", "6", "b", "\"" >>, << "k" >>,
      << "\"", "\\", "u", "1", "2", "\"" >> }

GivenTexts ==
    FieldTexts \cup TableTexts \cup DedentTexts \cup ListTexts
        \cup KeyOnlyTexts \cup CountedTexts \cup TokenTexts \cup ScalarTexts
        \cup TrailingTexts \cup BlankLineTexts \cup EmptyHeaderTexts
        \cup SignAndEscapeTexts

\* ------------------------------------------- state machine: a text is read

\* Nothing has been received or read.
TextInit ==
    /\ value = Null
    /\ options = DefaultOptions
    /\ output = << >>
    /\ error = NoError
    /\ parsed = NotParsed
    /\ deserializer = Deserializer_from_str
    /\ frames = << >>
    /\ pc = "start"

\* A text written elsewhere is at hand, as the argument of from_str.
Receive ==
    /\ pc = "start"
    /\ output' \in GivenTexts
    /\ pc' = "serialized"
    /\ UNCHANGED << value, options, error, parsed, deserializer, frames >>

TextNext == Receive \/ Parse

TextSpec == TextInit /\ [][TextNext]_vars

\* The value is an object that has the key k.
IsObjectWith(v, k) == v.t = "Object" /\ HasKey(v.o, k)

\* C13: for every key the grammar allows (a bare identifier or a quoted
\* string), a text whose first field is `k: v` is read as an object that
\* contains the key k, be the object the root value, the body of a nested
\* object or a list entry, whatever the first character of k.
C13_KeyParsesAsObject ==
    \A gk \in GrammarKeys, v \in FieldValueTexts :
        LET line == FieldLine(gk.w, v)
        IN /\ (pc = "parsed" /\ output = RootField(line))
                  => (parsed.ok /\ IsObjectWith(parsed.v, gk.k))
           /\ (pc = "parsed" /\ output = NestedField(line))
                  => /\ parsed.ok
                     /\ IsObjectWith(parsed.v, << "o" >>)
                     /\ IsObjectWith(Get(parsed.v.o, << "o" >>), gk.k)
           /\ (pc = "parsed" /\ output = EntryField(line))
                  => /\ parsed.ok
                     /\ parsed.v.t = "Array"
                     /\ Len(parsed.v.a) = 1
                     /\ IsObjectWith(parsed.v.a[1], gk.k)

\* The field `x: 1` has been read at the three places, as an object.
C13_FieldRead ==
    /\ pc = "parsed"
    /\ output \in {RootField(FieldLine(<< "x" >>, << "1" >>)),
                   NestedField(FieldLine(<< "x" >>, << "1" >>)),
                   EntryField(FieldLine(<< "x" >>, << "1" >>))}
    /\ parsed.ok

\* The same claim for the keys that start with none of `t`, `f`, `n`, a
\* digit, `-`, `"` or `[`: the ones parse_value does not dispatch on.
C13_UndispatchedKeys ==
    \A k \in {<< "x" >>, << "_", "a" >>, << "a", ".", "b" >>, << "k", "1" >>,
              << "a", "b" >>, << "T", "b" >>},
       v \in FieldValueTexts :
        LET line == FieldLine(k, v)
        IN /\ (pc = "parsed" /\ output = RootField(line))
                  => (parsed.ok /\ IsObjectWith(parsed.v, k))
           /\ (pc = "parsed" /\ output = NestedField(line))
                  => /\ parsed.ok
                     /\ IsObjectWith(parsed.v, << "o" >>)
                     /\ IsObjectWith(Get(parsed.v.o, << "o" >>), k)
           /\ (pc = "parsed" /\ output = EntryField(line))
                  => /\ parsed.ok
                     /\ parsed.v.t = "Array"
                     /\ Len(parsed.v.a) = 1
                     /\ IsObjectWith(parsed.v.a[1], k)

\* The object whose fields stand at indentation 2 * i in DedentText(depth,
\* level), when the line `e: 3` is a field of the object at indentation
\* 2 * level.
RECURSIVE DedentLevel(_, _, _)
DedentLevel(i, depth, level) ==
    LET own == IF i < depth
               THEN << Entry(<< ChainKeys[i + 1] >>,
                             DedentLevel(i + 1, depth, level)) >>
               ELSE << Entry(<< ChainKeys[depth + 1] >>, One) >>
    IN Object(IF i = level THEN own \o << Entry(<< "e" >>, Three) >> ELSE own)

DedentExpected(depth, level) == DedentLevel(0, depth, level)

\* C20: a `key: value` line indented less than the base indentation of more
\* than one open nested object ends every such object, and the field goes to
\* the innermost open object whose base indentation is not greater than the
\* line's: after `a:`, `  b:`, `    c: 1` the line `e: 3` is a field of the
\* root object.
C20_DedentClosesAll ==
    \A depth \in {2, MaxDepth} :
        \A level \in 0..(depth - 2) :
            (pc = "parsed" /\ output = DedentText(depth, level))
                => (parsed.ok /\ ValueEq(parsed.v, DedentExpected(depth, level)))

\* The text of the claim's example has been read, as some value.
C20_DedentRead ==
    /\ pc = "parsed"
    /\ output = DedentText(2, 0)
    /\ parsed.ok

\* A line that ends no object or one object goes where the claim says.
C20_DedentClosesOne ==
    \A depth \in {2, MaxDepth} :
        \A level \in (depth - 1)..depth :
            (pc = "parsed" /\ output = DedentText(depth, level))
                => (parsed.ok /\ ValueEq(parsed.v, DedentExpected(depth, level)))

\* No Table anywhere in the tree.
RECURSIVE NoTable(_)
NoTable(v) ==
    CASE v.t = "Array" -> \A i \in 1..Len(v.a) : NoTable(v.a[i])
      [] v.t = "Object" -> \A i \in 1..Len(v.o) : NoTable(v.o[i].v)
      [] v.t = "Table" -> FALSE
      [] OTHER -> TRUE

\* Some Table in the tree.
RECURSIVE HasTable(_)
HasTable(v) ==
    CASE v.t = "Array" -> \E i \in 1..Len(v.a) : HasTable(v.a[i])
      [] v.t = "Object" -> \E i \in 1..Len(v.o) : HasTable(v.o[i].v)
      [] v.t = "Table" -> TRUE
      [] OTHER -> FALSE

\* The tree with every table h1..hk of N rows replaced by the array of N
\* objects, the i-th one holding the k fields hj: cell j of row i, in header
\* order.
RECURSIVE KeyedByHeader(_)
KeyedByHeader(v) ==
    CASE v.t = "Array" -> Array([i \in 1..Len(v.a) |-> KeyedByHeader(v.a[i])])
      [] v.t = "Object" ->
             Object([i \in 1..Len(v.o) |->
                        Entry(v.o[i].k, KeyedByHeader(v.o[i].v))])
      [] v.t = "Table" ->
             Array([i \in 1..Len(v.rows) |->
                       Object([j \in 1..Len(v.headers) |->
                                  Entry(v.headers[j], v.rows[i][j])])])
      [] OTHER -> v

\* The first places of the names of a header list, ascending.
RECURSIVE FirstPlaces(_, _)
FirstPlaces(headers, j) ==
    IF j > Len(headers) THEN << >>
    ELSE IF \E i \in 1..(j - 1) : headers[i] = headers[j]
         THEN FirstPlaces(headers, j + 1)
         ELSE << j >> \o FirstPlaces(headers, j + 1)

\* The last place of the name that stands at place j.
LastPlace(headers, j) ==
    CHOOSE m \in j..Len(headers) :
        /\ headers[m] = headers[j]
        /\ \A n \in (m + 1)..Len(headers) : headers[n] # headers[j]

\* As KeyedByHeader, a header name that is repeated being one key, at the
\* place of its first occurrence and with the cell of its last one.
RECURSIVE KeyedByDistinctHeader(_)
KeyedByDistinctHeader(v) ==
    CASE v.t = "Array" ->
             Array([i \in 1..Len(v.a) |-> KeyedByDistinctHeader(v.a[i])])
      [] v.t = "Object" ->
             Object([i \in 1..Len(v.o) |->
                        Entry(v.o[i].k, KeyedByDistinctHeader(v.o[i].v))])
      [] v.t = "Table" ->
             LET places == FirstPlaces(v.headers, 1)
             IN Array([i \in 1..Len(v.rows) |->
                          Object([j \in 1..Len(places) |->
                                     Entry(v.headers[places[j]],
                                           v.rows[i][LastPlace(v.headers,
                                                               places[j])])])])
      [] OTHER -> v

\* What parse_value makes of the text at hand, before any visitor sees it.
ParsedTree == parse_value(output, Deserializer_from_str)

\* C17 as stated: the value from_str delivers holds no Table at any depth,
\* and every table read, of headers h1..hk and N rows, is delivered as the
\* array of N objects that map each hj to cell j of the row, keys in header
\* order.
C17_TableAsObjects ==
    (pc = "parsed" /\ parsed.ok)
        => /\ NoTable(parsed.v)
           /\ parsed.v = KeyedByHeader(ParsedTree.v)

\* C17, amended: the value from_str delivers holds no Table at any depth,
\* and every table read is delivered as the array of one object per row,
\* with one key per distinct header name, in the order of first occurrence,
\* mapped to the cell under the last occurrence of that name; for pairwise
\* distinct headers that is hj mapped to cell j, in header order.
C17_TableAsOrderedMaps ==
    (pc = "parsed" /\ parsed.ok)
        => /\ NoTable(parsed.v)
           /\ parsed.v = KeyedByDistinctHeader(ParsedTree.v)

\* A table of two rows has been read and delivered.
C17_TableRead ==
    /\ pc = "parsed"
    /\ parsed.ok
    /\ ParsedTree.v.t = "Table"
    /\ Len(ParsedTree.v.rows) = 2
    /\ Len(ParsedTree.v.headers) = 2

\* ------------------------------------------- values of the serde data model

\* What a Rust value hands to a serde Serializer: h names the serialize_*
\* method its Serialize impl calls. An integer carries its type, an empty
\* option and a sequence the type of what they hold (`of`), which is what
\* from_str::<T> is asked for on the way back.
IntType(ty) == [k |-> "int", ty |-> ty]
BoolType == [k |-> "bool"]
StrType == [k |-> "str"]
OptionType(of) == [k |-> "option", of |-> of]
VecType(of) == [k |-> "vec", of |-> of]
TupleType(of) == [k |-> "tuple", of |-> of]

HBool(b) == [h |-> "bool", b |-> b]
HInt(ty, i) == [h |-> "int", ty |-> ty, i |-> i]
HStr(s) == [h |-> "str", s |-> s]
HNone(of) == [h |-> "none", of |-> of]
HSome(x) == [h |-> "some", x |-> x]
HVec(of, xs) == [h |-> "seq", of |-> of, xs |-> xs]
HTuple(xs) == [h |-> "tuple", xs |-> xs]
HMap(entries) == [h |-> "map", entries |-> entries]
HStruct(fields) == [h |-> "struct", fields |-> fields]
HUnitVariant(variant) == [h |-> "unit_variant", variant |-> variant]
HNewtypeVariant(variant, x) ==
    [h |-> "newtype_variant", variant |-> variant, x |-> x]
HTupleVariant(variant, xs) ==
    [h |-> "tuple_variant", variant |-> variant, xs |-> xs]
HStructVariant(variant, fields) ==
    [h |-> "struct_variant", variant |-> variant, fields |-> fields]

\* A map entry (the key is a value too) and a struct field (a name).
HEntry(k, v) == [k |-> k, v |-> v]

\* ------------------------------------------------- errors of serialization

\* Result<_, Error> of a serialize call: `v` on success, else the variant of
\* Error and its message.
SerOk(v) == [ok |-> TRUE, v |-> v, kind |-> "None", msg |-> ""]

\* Error::unsupported_type
unsupported_type(msg) ==
    [ok |-> FALSE, v |-> Null, kind |-> "UnsupportedType", msg |-> msg]

\* Error::custom
custom(msg) == [ok |-> FALSE, v |-> Null, kind |-> "Custom", msg |-> msg]

\* ------------------------------------------------------ ToonValueSerializer

RECURSIVE ToonValueSerializer(_)
RECURSIVE SerializeVec(_, _, _)
RECURSIVE SerializeMap(_, _, _)
RECURSIVE SerializeStruct(_, _, _)

\* SerializeVec::serialize_element for xs[i..], then end.
SerializeVec(xs, i, vec) ==
    LET Push(r) == IF r.ok THEN SerializeVec(xs, i + 1, Append(vec, r.v))
                   ELSE r
    IN IF i > Len(xs) THEN SerOk(Array(vec))
       ELSE Push(ToonValueSerializer(xs[i]))

\* SerializeMap::serialize_key and serialize_value for entries[i..], then
\* end.
SerializeMap(entries, i, map) ==
    LET Put(key, r) ==
            IF r.ok THEN SerializeMap(entries, i + 1, MapInsert(map, key, r.v))
            ELSE r
        Key(kr) ==
            IF ~kr.ok THEN kr
            ELSE IF kr.v.t = "String"
            THEN Put(kr.v.s, ToonValueSerializer(entries[i].v))
            ELSE custom("Map keys must be strings")
    IN IF i > Len(entries) THEN SerOk(Object(map))
       ELSE Key(ToonValueSerializer(entries[i].k))

\* <SerializeMap as SerializeStruct>::serialize_field for fields[i..], then
\* end.
SerializeStruct(fields, i, map) ==
    LET Put(r) ==
            IF r.ok
            THEN SerializeStruct(fields, i + 1,
                                 MapInsert(map, fields[i].k, r.v))
            ELSE r
    IN IF i > Len(fields) THEN SerOk(Object(map))
       ELSE Put(ToonValueSerializer(fields[i].v))

\* x.serialize(ToonValueSerializer), which is to_toon_value(&x)
ToonValueSerializer(x) ==
    CASE x.h = "bool" -> SerOk(Bool(x.b))
      [] x.h = "int" -> SerOk(Number(Integer(x.i)))
      [] x.h = "str" -> SerOk(String(x.s))
      [] x.h = "none" -> SerOk(Null)
      [] x.h = "some" -> ToonValueSerializer(x.x)
      [] x.h \in {"seq", "tuple"} -> SerializeVec(x.xs, 1, << >>)
      [] x.h = "map" -> SerializeMap(x.entries, 1, << >>)
      [] x.h = "struct" -> SerializeStruct(x.fields, 1, << >>)
      [] x.h = "unit_variant" -> SerOk(String(x.variant))
      [] x.h = "newtype_variant" -> unsupported_type("newtype variants")
      [] x.h = "tuple_variant" -> unsupported_type("tuple variants")
      [] x.h = "struct_variant" -> unsupported_type("struct variants")

\* ------------------------------------------------------------- Serializer

RECURSIVE SeqElements(_, _, _)
RECURSIVE MapEntries(_, _, _)
RECURSIVE StructEntries(_, _, _)

\* SeqSerializer::serialize_element (and the same of the tuple serializers)
\* for xs[i..]: the elements collected.
SeqElements(xs, i, elements) ==
    LET Push(r) == IF r.ok THEN SeqElements(xs, i + 1, Append(elements, r.v))
                   ELSE r
    IN IF i > Len(xs) THEN SerOk(elements)
       ELSE Push(ToonValueSerializer(xs[i]))

\* MapSerializer::serialize_key and serialize_value for entries[i..]: the
\* entries collected, a Vec that keeps a repeated key.
MapEntries(entries, i, collected) ==
    LET Put(key, r) ==
            IF r.ok
            THEN MapEntries(entries, i + 1, Append(collected, Entry(key, r.v)))
            ELSE r
        Key(kr) ==
            IF ~kr.ok THEN kr
            ELSE IF kr.v.t = "String"
            THEN Put(kr.v.s, ToonValueSerializer(entries[i].v))
            ELSE custom("Map keys must be strings")
    IN IF i > Len(entries) THEN SerOk(collected)
       ELSE Key(ToonValueSerializer(entries[i].k))

\* StructSerializer::serialize_field (and StructVariantSerializer's) for
\* fields[i..].
StructEntries(fields, i, collected) ==
    LET Put(r) ==
            IF r.ok
            THEN StructEntries(fields, i + 1,
                               Append(collected, Entry(fields[i].k, r.v)))
            ELSE r
    IN IF i > Len(fields) THEN SerOk(collected)
       ELSE Put(ToonValueSerializer(fields[i].v))

\* What a variant writes before its content: the name, ':' and, when
\* options.pretty, a space.
VariantPrefix(variant, opts) ==
    variant \o << ":" >> \o (IF opts.pretty THEN << " " >> ELSE << >>)

\* SeqSerializer::end and the end of the tuple serializers, on the elements
\* collected.
EndSeq(r, opts) ==
    IF r.ok THEN SerOk(SeqSerializer_end(r.v, opts, 0)) ELSE r

\* MapSerializer::end / StructSerializer::end
EndObject(r, opts) ==
    IF r.ok THEN SerOk(write_object(r.v, opts, 0)) ELSE r

\* TupleVariantSerializer::end
EndTupleVariant(variant, r, opts) ==
    IF r.ok
    THEN SerOk(VariantPrefix(variant, opts) \o SeqSerializer_end(r.v, opts, 0))
    ELSE r

\* StructVariantSerializer::end
EndStructVariant(variant, r, opts) ==
    IF ~r.ok THEN r
    ELSE SerOk(variant \o << ":" >>
                   \o (IF opts.pretty THEN << "\n" >> ELSE << >>)
                   \o write_object(r.v, opts, IF opts.pretty THEN 1 ELSE 0))

\* x.serialize(&mut serializer) on a fresh Serializer: the text in its output
\* when the call returns Ok.
RECURSIVE Serializer(_, _)
Serializer(x, opts) ==
    LET AfterPrefix(variant, r) ==
            IF r.ok THEN SerOk(VariantPrefix(variant, opts) \o r.v) ELSE r
    IN CASE x.h = "bool" ->
                SerOk(IF x.b THEN << "t", "r", "u", "e" >>
                      ELSE << "f", "a", "l", "s", "e" >>)
         [] x.h = "int" -> SerOk(IntToText(x.i))
         [] x.h = "str" -> SerOk(write_string(x.s))
         [] x.h = "none" -> SerOk(<< "n", "u", "l", "l" >>)
         [] x.h = "some" -> Serializer(x.x, opts)
         [] x.h \in {"seq", "tuple"} ->
                EndSeq(SeqElements(x.xs, 1, << >>), opts)
         [] x.h = "map" -> EndObject(MapEntries(x.entries, 1, << >>), opts)
         [] x.h = "struct" ->
                EndObject(StructEntries(x.fields, 1, << >>), opts)
         [] x.h = "unit_variant" -> SerOk(write_string(x.variant))
         [] x.h = "newtype_variant" ->
                AfterPrefix(x.variant, Serializer(x.x, opts))
         [] x.h = "tuple_variant" ->
                EndTupleVariant(x.variant, SeqElements(x.xs, 1, << >>), opts)
         [] x.h = "struct_variant" ->
                EndStructVariant(x.variant, StructEntries(x.fields, 1, << >>),
                                 opts)

\* to_string_with_options::<T>: the text on Ok; on Err the error alone, the
\* Serializer and what it holds being dropped.
to_string_with_options_of(x, opts) == Serializer(x, opts)
\* ------------------------------------------------------ from_str::<T>

\* Result<T> of a deserialize call.
DeOk(x) == [ok |-> TRUE, v |-> x, err |-> << >>]
DeErr(msg) == [ok |-> FALSE, v |-> Null, err |-> << msg >>]

\* The integers of the model are those of TLC, i32's range: every one of them
\* is an i32 and an i64, the non-negative ones are u32's and u64's.
Bits(ty) == IF ty \in {"i8", "u8"} THEN 8 ELSE 16

IsNarrow(ty) == ty \in {"i8", "u8", "i16", "u16"}

IsSigned(ty) == ty \in {"i8", "i16", "i32", "i64"}

RECURSIVE Pow2(_)
Pow2(n) == IF n <= 0 THEN 1 ELSE 2 * Pow2(n - 1)

\* T::MIN and T::MAX of a narrow type and of i32.
MinOf(ty) ==
    IF ty = "i32" THEN (0 - 2147483647) - 1
    ELSE IF IsSigned(ty) THEN 0 - Pow2(Bits(ty) - 1) ELSE 0

MaxOf(ty) ==
    IF ty = "i32" THEN 2147483647
    ELSE IF IsSigned(ty) THEN Pow2(Bits(ty) - 1) - 1 ELSE Pow2(Bits(ty)) - 1

\* A value of the type that lies above the integers of the model.
HIntBeyond(ty) == [h |-> "int", ty |-> ty, beyond |-> TRUE]

\* `i as T` on an i64: the low bits, read in T.
CastInteger(ty, i) ==
    IF IsNarrow(ty)
    THEN LET low == i % Pow2(Bits(ty))
         IN HInt(ty, IF IsSigned(ty) /\ low > MaxOf(ty)
                     THEN low - Pow2(Bits(ty)) ELSE low)
    ELSE IF ty \in {"u32", "u64"} /\ i < 0 THEN HIntBeyond(ty)
    ELSE HInt(ty, i)

\* `f as T` on an f64: towards zero, then the nearest value of T; NaN is 0.
CastFloat(ty, f) ==
    LET whole == IF f.m < 0 THEN 0 - ((0 - f.m) \div Pow10(f.e))
                 ELSE f.m \div Pow10(f.e)
    IN CASE f.sp = "nan" -> HInt(ty, 0)
         [] f.sp = "inf" ->
                IF IsNarrow(ty) \/ ty = "i32" THEN HInt(ty, MaxOf(ty))
                ELSE HIntBeyond(ty)
         [] f.sp = "-inf" ->
                IF IsNarrow(ty) \/ ty = "i32" THEN HInt(ty, MinOf(ty))
                ELSE IF ty \in {"u32", "u64"} THEN HInt(ty, 0)
                ELSE HIntBeyond(ty)
         [] OTHER ->
                IF IsNarrow(ty) /\ whole > MaxOf(ty) THEN HInt(ty, MaxOf(ty))
                ELSE IF IsNarrow(ty) /\ whole < MinOf(ty)
                THEN HInt(ty, MinOf(ty))
                ELSE IF ty \in {"u32", "u64"} /\ whole < 0 THEN HInt(ty, 0)
                ELSE HInt(ty, whole)

\* deserialize_i8 .. deserialize_u64 on the Number parse_number returned.
NumberAs(ty, n) ==
    CASE n.k = "Integer" -> CastInteger(ty, n.i)
      [] n.k = "Float" -> CastFloat(ty, n)
      [] n.k = "Infinity" -> CastFloat(ty, FloatInf)
      [] n.k = "NegativeInfinity" -> CastFloat(ty, FloatNegInf)
      [] n.k = "NaN" -> HInt(ty, 0)

\* Whether serde's visitor of the integer type takes the i64 (visit_i64).
FitsIn(ty, i) ==
    IF IsNarrow(ty) THEN MinOf(ty) <= i /\ i <= MaxOf(ty)
    ELSE IF ty \in {"u32", "u64"} THEN i >= 0
    ELSE TRUE

\* deserialize_any, Value::Table arm: the rows as objects.
TableObjects(v) ==
    [i \in 1..Len(v.rows) |->
        Object(RowObject(v.headers, v.rows[i], Len(v.rows[i])))]

RECURSIVE FromValue(_, _)
RECURSIVE FromValues(_, _, _, _)
RECURSIVE FromTuple(_, _, _, _)

\* SeqAccess of a Vec<T>: next_element::<T> on vs[i..] until the end.
FromValues(of, vs, i, xs) ==
    LET Push(r) == IF r.ok THEN FromValues(of, vs, i + 1, Append(xs, r.v))
                   ELSE r
    IN IF i > Len(vs) THEN DeOk(HVec(of, xs))
       ELSE Push(FromValue(of, vs[i]))

\* SeqAccess of a tuple: one next_element per member; what follows the last
\* member is not looked at.
FromTuple(of, vs, i, xs) ==
    LET Push(r) == IF r.ok THEN FromTuple(of, vs, i + 1, Append(xs, r.v))
                   ELSE r
    IN IF i > Len(of) THEN DeOk(HTuple(xs))
       ELSE IF i > Len(vs) THEN DeErr("invalid length")
       ELSE Push(FromValue(of[i], vs[i]))

\* T::deserialize(ValueDeserializer::new(v)): every deserialize_* forwards to
\* deserialize_any, which calls the visit_* of the variant of v.
FromValue(ty, v) ==
    CASE ty.k = "int" ->
             IF v.t = "Number" /\ v.n.k = "Integer"
             THEN IF FitsIn(ty.ty, v.n.i) THEN DeOk(HInt(ty.ty, v.n.i))
                  ELSE DeErr("invalid value")
             ELSE DeErr("invalid type")
      [] ty.k = "bool" ->
             IF v.t = "Bool" THEN DeOk(HBool(v.b)) ELSE DeErr("invalid type")
      [] ty.k = "str" ->
             CASE v.t = "String" -> DeOk(HStr(v.s))
               [] v.t = "Date" -> DeOk(HStr(DateText(v.d)))
               [] v.t = "BigInt" -> DeOk(HStr(BigIntText(v.i)))
               [] OTHER -> DeErr("invalid type")
      [] ty.k = "option" ->
             IF v.t = "Null" THEN DeOk(HNone(ty.of))
             ELSE DeErr("invalid type")
      [] ty.k = "vec" ->
             CASE v.t = "Array" -> FromValues(ty.of, v.a, 1, << >>)
               [] v.t = "Table" -> FromValues(ty.of, TableObjects(v), 1, << >>)
               [] OTHER -> DeErr("invalid type")
      [] ty.k = "tuple" ->
             CASE v.t = "Array" -> FromTuple(ty.of, v.a, 1, << >>)
               [] v.t = "Table" -> FromTuple(ty.of, TableObjects(v), 1, << >>)
               [] OTHER -> DeErr("invalid type")

\* deserialize_seq and deserialize_tuple on what parse_value returned.
SeqOf(ty, r) ==
    IF ~r.ok THEN [ok |-> FALSE, v |-> Null, err |-> r.err]
    ELSE IF r.v.t \in {"Array", "Table"} THEN FromValue(ty, r.v)
    ELSE DeErr("Expected array")

\* deserialize_i8 .. deserialize_u64
IntOf(ty, r) ==
    IF r.ok THEN DeOk(NumberAs(ty, r.v))
    ELSE [ok |-> FALSE, v |-> Null, err |-> r.err]

\* deserialize_bool
BoolOf(r) ==
    IF r.ok THEN DeOk(HBool(r.v))
    ELSE [ok |-> FALSE, v |-> Null, err |-> r.err]

\* deserialize_str / deserialize_string
StrOf(r) ==
    IF r.ok THEN DeOk(HStr(r.v))
    ELSE [ok |-> FALSE, v |-> Null, err |-> r.err]

\* visit_some
SomeOf(r) == IF r.ok THEN DeOk(HSome(r.v)) ELSE r

\* T::deserialize(&mut deserializer) on a Deserializer at the start of the
\* input.
RECURSIVE Deserialize(_, _)
Deserialize(ty, input) ==
    CASE ty.k = "int" -> IntOf(ty.ty, parse_number(input, Deserializer_from_str))
      [] ty.k = "bool" -> BoolOf(parse_bool(input, Deserializer_from_str))
      [] ty.k = "str" -> StrOf(parse_string(input, Deserializer_from_str))
      [] ty.k = "option" ->
             IF StartsWithAt(input, 0, << "n", "u", "l", "l" >>)
             THEN DeOk(HNone(ty.of))
             ELSE SomeOf(Deserialize(ty.of, input))
      [] ty.k \in {"vec", "tuple"} ->
             SeqOf(ty, parse_value(input, Deserializer_from_str))

\* from_str::<T>; the input left after the value is not looked at.
from_str_as(ty, s) == Deserialize(ty, s)

\* The T of from_str::<T> that reads a value back.
RECURSIVE TypeOf(_)
TypeOf(x) ==
    CASE x.h = "bool" -> BoolType
      [] x.h = "int" -> IntType(x.ty)
      [] x.h = "str" -> StrType
      [] x.h = "none" -> OptionType(x.of)
      [] x.h = "some" -> OptionType(TypeOf(x.x))
      [] x.h = "seq" -> VecType(x.of)
      [] x.h = "tuple" -> TupleType([i \in 1..Len(x.xs) |-> TypeOf(x.xs[i])])
\* ------------------------------------------- values given to the Serializer

I32 == IntType("i32")

\* Values of each integer type: its bounds where the integers of the model
\* reach them (i32's lower bound less one, which IntToText cannot negate),
\* and values between.
IntSamples ==
    {HInt("i8", i) : i \in {-128, -1, 0, 127}}
        \cup {HInt("i16", i) : i \in {-32768, -129, 0, 128, 32767}}
        \cup {HInt("i32", i) : i \in {-2147483647, -32769, 0, 10, 2147483647}}
        \cup {HInt("i64", i) : i \in {-2147483647, -1, 0, 2147483647}}
        \cup {HInt("u8", i) : i \in {0, 9, 255}}
        \cup {HInt("u16", i) : i \in {0, 256, 65535}}
        \cup {HInt("u32", i) : i \in {0, 65536, 2147483647}}

I32Samples == {HInt("i32", i) : i \in {-1, 0, 12}}

\* A Vec<i32> of eleven elements: its length takes two digits.
LongVec == HVec(I32, [i \in 1..11 |-> HInt("i32", i - 6)])

VecSamples ==
    {HVec(I32, xs) : xs \in SeqsUpTo(I32Samples, MaxArrLen)} \cup {LongVec}

OptionSamples ==
    {HNone(I32)} \cup {HSome(HInt("i32", i)) : i \in {-5, 0, 2147483647}}

PairSamples ==
    {HTuple(<< HInt("i32", i), HBool(b) >>) :
        i \in {-2147483647, 0, 7}, b \in BOOLEAN}

\* The values of the types that are written and read back.
RoundTripValues ==
    IntSamples \cup {HBool(TRUE), HBool(FALSE)} \cup VecSamples
        \cup OptionSamples \cup PairSamples

\* A type whose Deserialize the model does not follow.
OtherType == [k |-> "other"]

\* A value as an element of a sequence, a field of a struct, a value of a
\* map with a string key, the content of an option and a member of a tuple.
NestedIn(x) ==
    { HVec(OtherType, << x >>),
      HStruct(<< HEntry(<< "f" >>, x) >>),
      HMap(<< HEntry(HStr(<< "c" >>), x) >>),
      HSome(x),
      HTuple(<< HBool(TRUE), x >>) }

\* Map keys that do not serialize to a string, and two that do.
NonStringKeys ==
    { HInt("i32", 1), HBool(TRUE), HNone(StrType),
      HTuple(<< HStr(<< "a" >>) >>), HVec(StrType, << >>) }

StringKeys == { HStr(<< "a" >>), HUnitVariant(<< "A" >>) }

\* Maps of one entry, and of two whose second key is the one in question.
MapsKeyedBy(k) ==
    { HMap(<< HEntry(k, HInt("i32", 1)) >>),
      HMap(<< HEntry(HStr(<< "b" >>), HBool(TRUE)),
              HEntry(k, HInt("i32", 1)) >>) }

MapSamples ==
    UNION {MapsKeyedBy(k) \cup UNION {NestedIn(m) : m \in MapsKeyedBy(k)} :
              k \in NonStringKeys \cup StringKeys}

\* Enum values: a newtype, a tuple and a struct variant.
VariantSamples ==
    { HNewtypeVariant(<< "E" >>, HStr(<< "e" >>)),
      HNewtypeVariant(<< "E" >>, HInt("i32", 5)),
      HNewtypeVariant(<< "E" >>, HVec(I32, << HInt("i32", 1) >>)),
      HTupleVariant(<< "T" >>, << HInt("i32", 1), HInt("i32", 2) >>),
      HStructVariant(<< "D" >>, << HEntry(<< "x" >>, HInt("i32", 1)) >>),
      HStructVariant(<< "D" >>, << HEntry(<< "x" >>, HInt("i32", 1)),
                                   HEntry(<< "y" >>, HStr(<< "a" >>)) >>) }

EnumSamples ==
    VariantSamples \cup UNION {NestedIn(x) : x \in VariantSamples}
        \cup {HUnitVariant(<< "A" >>)} \cup NestedIn(HUnitVariant(<< "A" >>))

HostValues == RoundTripValues \cup MapSamples \cup EnumSamples

HostOptions == { DefaultOptions, ToonOptions(2, "Comma", << >>, TRUE) }

\* ------------------------------- state machine: a Rust value is serialized

\* A value and options are chosen; nothing has been written or read.
HostInit ==
    /\ value \in HostValues
    /\ options \in HostOptions
    /\ output = << >>
    /\ error = NoError
    /\ parsed = NotParsed
    /\ deserializer = Deserializer_from_str
    /\ frames = << >>
    /\ pc = "start"

\* What to_string_with_options leaves: the text of Ok, or the error of Err
\* and no text.
Returned(r) ==
    IF r.ok
    THEN output' = r.v /\ error' = NoError /\ pc' = "serialized"
    ELSE /\ output' = << >>
         /\ error' = [kind |-> r.kind, msg |-> r.msg]
         /\ pc' = "failed"

\* to_string_with_options(&value, options)
SerializeAny ==
    /\ pc = "start"
    /\ Returned(to_string_with_options_of(value, options))
    /\ UNCHANGED << value, options, parsed, deserializer, frames >>

\* from_str::<T>(&output), T the type of the value written.
ParseAs ==
    /\ pc = "serialized"
    /\ value \in RoundTripValues
    /\ parsed' = from_str_as(TypeOf(value), output)
    /\ pc' = "parsed"
    /\ UNCHANGED << value, options, output, error, deserializer, frames >>

\* The integer types an integer literal is read as.
IntTargets == {"i8", "i16", "i32", "u8", "u16", "u32", "u64"}

\* The T of from_str::<T> and the text given to it when an integer literal
\* is read as the type ty: alone, and as the one element of a Vec.
LiteralPlaces == {"root", "element"}

TargetType(place, ty) ==
    IF place = "root" THEN IntType(ty) ELSE VecType(IntType(ty))

LiteralAt(place, literal) ==
    IF place = "root" THEN literal
    ELSE << "[", "1", "]", ":", " " >> \o literal

\* from_str::<T>(&output) and from_str::<Vec<T>>("[1]: " + output), T an
\* integer type that need not be the type of the integer written.
ParseInto ==
    /\ pc = "serialized"
    /\ value \in IntSamples
    /\ \E ty \in IntTargets :
           parsed' = [ty |-> ty,
                      at |-> [place \in LiteralPlaces |->
                                 from_str_as(TargetType(place, ty),
                                             LiteralAt(place, output))]]
    /\ pc' = "cast"
    /\ UNCHANGED << value, options, output, error, deserializer, frames >>

HostNext == SerializeAny \/ ParseAs \/ ParseInto

HostSpec == HostInit /\ [][HostNext]_vars

\* C12: for every value x of the types i8, i16, i32, i64, u8, u16, u32 and
\* bool, every Vec<i32>, every Option<i32> and every pair (i32, bool),
\* from_str(to_string(x)) succeeds and returns x.
C12_TypedRoundTrip ==
    (pc = "parsed" /\ value \in RoundTripValues)
        => (parsed.ok /\ parsed.v = value)

\* A Vec<i32> of two elements, written by to_string, has been read back.
C12_VecReadBack ==
    /\ pc = "parsed"
    /\ options = DefaultOptions
    /\ value.h = "seq"
    /\ Len(value.xs) = 2
    /\ value.xs[1].i < 0
    /\ output = << "[", "2", "]", ":", " ", "-", "1", ",", "0" >>
    /\ parsed.ok

\* The key serializes to a string: a string, a unit variant (its name), or
\* an option that holds one.
RECURSIVE SerializesToString(_)
SerializesToString(k) ==
    CASE k.h \in {"str", "unit_variant"} -> TRUE
      [] k.h = "some" -> SerializesToString(k.x)
      [] OTHER -> FALSE

\* The values directly inside a value.
Children(x) ==
    CASE x.h \in {"some", "newtype_variant"} -> { x.x }
      [] x.h \in {"seq", "tuple", "tuple_variant"} ->
             {x.xs[i] : i \in 1..Len(x.xs)}
      [] x.h = "map" ->
             {x.entries[i].k : i \in 1..Len(x.entries)}
                 \cup {x.entries[i].v : i \in 1..Len(x.entries)}
      [] x.h \in {"struct", "struct_variant"} ->
             {x.fields[i].v : i \in 1..Len(x.fields)}
      [] OTHER -> { }

\* A map with a key that does not serialize to a string, the value itself or
\* one nested in it.
RECURSIVE HasNonStringKey(_)
HasNonStringKey(x) ==
    \/ /\ x.h = "map"
       /\ \E i \in 1..Len(x.entries) : ~SerializesToString(x.entries[i].k)
    \/ \E c \in Children(x) : HasNonStringKey(c)

\* C18: serializing a map one of whose keys does not serialize to a string
\* aborts the whole call, which returns an error of kind UnsupportedType and
\* no text, be the map the root value or nested in another value.
C18_NonStringKeyUnsupported ==
    (pc # "start" /\ HasNonStringKey(value))
        => /\ pc = "failed"
           /\ output = << >>
           /\ error.kind = "UnsupportedType"

\* A map keyed by an integer, nested in a sequence, has been given to
\* to_string_with_options and the call has returned.
C18_KeyRejected ==
    /\ pc = "failed"
    /\ value.h = "seq"
    /\ HasNonStringKey(value)

\* The call does abort and returns no text; the error is Error::Custom.
C18_NonStringKeyAborts ==
    (pc # "start" /\ HasNonStringKey(value))
        => /\ pc = "failed"
           /\ output = << >>
           /\ error = [kind |-> "Custom", msg |-> "Map keys must be strings"]

\* A newtype, tuple or struct variant.
IsDataVariant(x) ==
    x.h \in {"newtype_variant", "tuple_variant", "struct_variant"}

\* The documented form of a variant that is the root value: `Variant: value`
\* for a newtype variant, the name and ':' followed by the array or the
\* object for the others.
DocumentedForm(x, opts, text) ==
    IF x.h = "newtype_variant"
    THEN /\ Serializer(x.x, opts).ok
         /\ text = x.variant \o << ":", " " >> \o Serializer(x.x, opts).v
    ELSE /\ StartsWith(text, x.variant \o << ":" >>)
         /\ Len(text) > Len(x.variant) + 1

\* C19: an enum value of a newtype, tuple or struct variant serializes
\* successfully, to its documented form, as the root value and as a struct
\* field, a map value or a sequence element.
C19_VariantsSerialize ==
    /\ (pc # "start" /\ IsDataVariant(value))
           => (pc = "serialized" /\ DocumentedForm(value, options, output))
    /\ (pc # "start" /\ value.h \in {"seq", "struct", "map"}
           /\ \E c \in Children(value) : IsDataVariant(c))
           => /\ pc = "serialized"
              /\ \E c \in Children(value) :
                     /\ IsDataVariant(c)
                     /\ ContainsSub(output, c.variant \o << ":" >>)

\* A newtype variant has been written as the root value.
C19_VariantWritten ==
    /\ pc = "serialized"
    /\ value.h = "newtype_variant"
    /\ options.pretty

\* What the code does: as the root value a variant is written, with a space
\* after the ':' only when options.pretty; as an element, a member, a field
\* or a map value it is refused with Error::UnsupportedType.
C19_RootOnly ==
    /\ (pc # "start" /\ IsDataVariant(value))
           => /\ pc = "serialized"
              /\ StartsWith(output, value.variant \o << ":" >>)
              /\ options.pretty => DocumentedForm(value, options, output)
    /\ (pc # "start" /\ value.h \in {"seq", "tuple", "struct", "map"}
           /\ \E c \in Children(value) : IsDataVariant(c))
           => (pc = "failed" /\ error.kind = "UnsupportedType")

\* ------------------------------------------------ list entries that are objects

\* The array ListText(entries, fields) stands for.
ListExpected(entries, fields) ==
    Array([i \in 1..entries |->
              Object([j \in 1..fields |->
                         Entry(<< ListFieldKeys[j] >>, Number(Integer(i)))])])

\* C21: a list-form array of declared length N whose entries are objects,
\* the first field on the `- ` line and the others on the following lines
\* indented two columns past the dash, is read as the array of N elements,
\* the i-th one holding exactly the fields of the i-th entry; a line that
\* starts with `- ` at the dash's indentation begins the next entry.
C21_EntriesAreObjects ==
    \A entries \in 1..MaxEntries, fields \in 1..Len(ListFieldKeys) :
        (pc = "parsed" /\ output = ListText(entries, fields))
            => (parsed.ok /\ ValueEq(parsed.v, ListExpected(entries, fields)))

\* A list of two entries of two fields each has been handed to from_str.
C21_TwoEntriesRead ==
    /\ pc = "parsed"
    /\ output = ListText(2, 2)

\* The same claim for a list of one entry: no `- ` line follows an object.
C21_OneEntry ==
    \A fields \in 1..Len(ListFieldKeys) :
        (pc = "parsed" /\ output = ListText(1, fields))
            => (parsed.ok /\ ValueEq(parsed.v, ListExpected(1, fields)))

\* ------------------------------------------------ a key with no value on its line

\* The object reached from v through the keys a, b, ... of depth nested
\* objects; Null when the path is not there.
RECURSIVE Descend(_, _, _)
Descend(v, i, depth) ==
    IF i > depth THEN v
    ELSE IF IsObjectWith(v, << ChainKeys[i] >>)
    THEN Descend(Get(v.o, << ChainKeys[i] >>), i + 1, depth)
    ELSE Null

\* What the claim says of the object h that holds the key `x`, the next
\* line `y: 1` being at indentation 2 * level and `x:` at 2 * depth.
KeyOnlyHolds(h, depth, level) ==
    /\ IsObjectWith(h, << "x" >>)
    /\ IF level > depth
       THEN Get(h.o, << "x" >>) = Object(<< Entry(<< "y" >>, One) >>)
       ELSE /\ Get(h.o, << "x" >>) = Object(<< >>)
            /\ (level = depth => IsObjectWith(h, << "y" >>))

\* C22: when nothing follows `key:` on its line, the value is built only
\* from the following lines indented strictly more than the key's line; a
\* next line of the same or a smaller indentation leaves the value the empty
\* object and is read as a sibling field (or ends the enclosing object).
C22_ValueFromDeeperLines ==
    \A depth \in 0..(MaxDepth - 1) :
        \A level \in 0..(depth + 1) :
            (pc = "parsed" /\ output = KeyOnlyText(depth, level))
                => (parsed.ok
                    /\ KeyOnlyHolds(Descend(parsed.v, 1, depth), depth, level))

\* `a:`, `  x:` and a line `  y: 1` of the same indentation have been read.
C22_SiblingLineRead ==
    /\ pc = "parsed"
    /\ output = KeyOnlyText(1, 1)
    /\ parsed.ok

\* The same claim for a next line indented one level more than the key.
C22_DeeperLineNested ==
    \A depth \in 0..(MaxDepth - 1) :
        (pc = "parsed" /\ output = KeyOnlyText(depth, depth + 1))
            => (parsed.ok
                /\ KeyOnlyHolds(Descend(parsed.v, 1, depth), depth, depth + 1))

\* ------------------------------------------------ declared and supplied lengths

\* The parser's value is an array of n elements, or a table of n rows that
\* each hold one cell per header.
HasLength(v, n) ==
    CASE v.t = "Array" -> Len(v.a) = n
      [] v.t = "Table" ->
             /\ Len(v.rows) = n
             /\ \A i \in 1..Len(v.rows) : Len(v.rows[i]) = Len(v.headers)
      [] OTHER -> FALSE

\* C23: when an array of declared length N is parsed with success the result
\* has exactly N elements (inline and list form) or exactly N rows of
\* headers.length cells each (tabular form); an input that supplies fewer
\* than N elements or rows is rejected.
C23_DeclaredLengthKept ==
    \A form \in ArrayForms :
        \A declared \in 1..MaxEntries :
            \A supplied \in 0..declared :
                (pc = "parsed" /\ output = CountedText(form, declared, supplied))
                    => IF supplied < declared
                       THEN ~parsed.ok
                       ELSE parsed.ok /\ HasLength(ParsedTree.v, declared)

\* A table that declares two rows and supplies one has been handed to
\* from_str.
C23_ShortTableRead ==
    /\ pc = "parsed"
    /\ output = CountedText("table", 2, 1)

\* The same claim for the inline and the list form.
C23_InlineAndListLength ==
    \A form \in {"inline", "list"} :
        \A declared \in 1..MaxEntries :
            \A supplied \in 0..declared :
                (pc = "parsed" /\ output = CountedText(form, declared, supplied))
                    => IF supplied < declared
                       THEN ~parsed.ok
                       ELSE parsed.ok /\ HasLength(ParsedTree.v, declared)

\* Whatever the text, a table that was parsed holds one cell per header in
\* every row.
C23_RowsAsWideAsHeader ==
    (pc = "parsed" /\ parsed.ok /\ ParsedTree.v.t = "Table")
        => \A i \in 1..Len(ParsedTree.v.rows) :
               Len(ParsedTree.v.rows[i]) = Len(ParsedTree.v.headers)

\* ------------------------------------------------ the words true, false and null

\* The value the word stands for.
LiteralOf(w) ==
    IF w = << "t", "r", "u", "e" >> THEN Bool(TRUE)
    ELSE IF w = << "f", "a", "l", "s", "e" >> THEN Bool(FALSE)
    ELSE Null

\* The value read for the token: the whole result, or the one element of
\* the list; a string no token reads as when the result has another shape.
TokenValue(place, v) ==
    IF place = "root" THEN v
    ELSE IF v.t = "Array" /\ Len(v.a) = 1 THEN v.a[1]
    ELSE String(<< "[", "]" >>)

\* C24: a token that begins with `t`, `f` or `n` is read as Bool or Null
\* only if the whole token, up to the next delimiter, newline or end of
\* input, is exactly true, false or null; a longer token that starts with
\* one of the words is not accepted as the literal.
C24_WholeTokenLiteral ==
    \A place \in TokenPlaces, w \in LiteralWords, tail \in TokenTails :
        (pc = "parsed" /\ output = TokenAt(place, w \o tail) /\ parsed.ok
            /\ TokenValue(place, parsed.v) = LiteralOf(w))
                => tail = << >>

\* The token `trueish` has been read, with success.
C24_LongerTokenRead ==
    /\ pc = "parsed"
    /\ output = TokenAt("root", << "t", "r", "u", "e", "i", "s", "h" >>)
    /\ parsed.ok

\* The exact words are read as the literals.
C24_ExactWords ==
    \A place \in TokenPlaces, w \in LiteralWords :
        (pc = "parsed" /\ output = TokenAt(place, w))
            => (parsed.ok /\ TokenValue(place, parsed.v) = LiteralOf(w))

\* ------------------------------------------------ colons inside quotes

\* The value read for the line: the whole result, or the value of the field
\* `x`; an empty object when the result has another shape.
ScalarValue(place, v) ==
    IF place = "root" THEN v
    ELSE IF IsObjectWith(v, << "x" >>) THEN Get(v.o, << "x" >>)
    ELSE Object(<< >>)

IsScalar(v) == v.t \in {"Null", "Bool", "Number", "String"}

\* C25: where parse_value has to choose between an object and a scalar, a
\* `:` inside a double-quoted segment does not count: a line whose only
\* colons are inside quotes is read as an unquoted scalar, not as an object.
C25_QuotedColonIgnored ==
    \A place \in ScalarPlaces, line \in ColonInQuotes :
        (pc = "parsed" /\ output = ScalarAt(place, line))
            => (parsed.ok /\ IsScalar(ScalarValue(place, parsed.v)))

\* The line `a "b:c"` has been read, with success.
C25_QuotedColonRead ==
    /\ pc = "parsed"
    /\ output = ScalarAt("root", << "a", " ", "\"", "b", ":", "c", "\"" >>)
    /\ parsed.ok

\* A line of the same kind with no colon at all is read as the scalar.
C25_NoColonIsScalar ==
    \A place \in ScalarPlaces, line \in NoColon :
        (pc = "parsed" /\ output = ScalarAt(place, line))
            => (parsed.ok /\ ScalarValue(place, parsed.v) = String(line))

\* ------------------------------------------------ the quoted form read back

\* parse_string started at the opening quote that stands at position pos of
\* the text reads exactly s and stops right after the closing quote, which
\* is the end of the text.
ReadsBackTo(text, pos, s) ==
    LET Exactly(r) == r.ok /\ r.v = s /\ r.st.pos = Len(text)
    IN Exactly(parse_string(text, Advance(Deserializer_from_str, pos)))

\* C26: for every string s the quoted form the writer produces (a double
\* quote, s with `"`, backslash, newline, carriage return, tab, backspace,
\* form feed and NUL each replaced by a two-character escape, a double
\* quote) is read by the parser's quoted-string rule back to exactly s, the
\* input being consumed exactly through the closing quote; the form is
\* taken where the writer put it, as the root value (write_string) and as
\* the value of a field (write_toon_value_quoted).
C26_QuotedReadBack ==
    /\ (pc # "start" /\ value.t = "String" /\ needs_quotes(value.s))
           => /\ output = Quoted(value.s)
              /\ ReadsBackTo(output, 0, value.s)
    /\ (pc # "start" /\ value.t = "Object" /\ Len(value.o) = 1)
           => \A s \in Texts :
                  (value = AtField(s) /\ needs_quotes_toon(s, options))
                      => /\ output = << "x", ":", " " >> \o Quoted(s)
                         /\ ReadsBackTo(output, 3, s)

\* The string of the eight escaped characters (double quote, backslash,
\* newline, carriage return, tab, backspace, form feed, NUL) has been
\* written in quoted form as the value of a field, each character as its
\* two-character escape, and read back.
C26_EveryEscapeWritten ==
    /\ pc = "parsed"
    /\ value = AtField(<< "\"", "\\", "\n", "\r", "\t", "BS", "FF", "NUL" >>)
    /\ output = << "x", ":", " ", "\"",
                  "\\", "\"", "\\", "\\", "\\", "n", "\\", "r", "\\", "t",
                  "\\", "b", "\\", "f", "\\", "0", "\"" >>
    /\ parsed.ok

\* ------------------------------------------------ the input left after the value

\* Nothing but whitespace stands in the text from position pos on.
OnlyWhitespaceFrom(text, pos) ==
    \A i \in (pos + 1)..Len(text) : is_whitespace(text[i])

\* C27: from_str returns Ok only if the parser has consumed the whole input,
\* trailing whitespace apart: text that remains after a complete value
\* (elements beyond the declared length of an inline array, characters
\* right after a boolean or number literal) makes the call return an error.
C27_WholeInputConsumed ==
    (pc = "parsed" /\ parsed.ok)
        => OnlyWhitespaceFrom(output, ParsedTree.st.pos)

\* An inline array that declares one element and supplies two has been
\* read, with success.
C27_ExtraElementRead ==
    /\ pc = "parsed"
    /\ output = CountedText("inline", 1, 2)
    /\ parsed.ok
    /\ Len(parsed.v.a) = 1

\* ------------------------------------------------ integer literals out of range

\* C29: for every fixed-width integer type T and every integer literal n
\* outside the range of T, from_str::<T>(n) returns an error, as it does
\* when the literal is an element of a sequence read as Vec<T>; it never
\* returns a value obtained by wrapping n modulo 2^w.
C29_OutOfRangeRejected ==
    (pc = "cast" /\ ~FitsIn(parsed.ty, value.i))
        => (~parsed.at["root"].ok /\ ~parsed.at["element"].ok)

\* The literal 128, written for an i16, has been read as an i8.
C29_LiteralReadNarrow ==
    /\ pc = "cast"
    /\ value = HInt("i16", 128)
    /\ output = << "1", "2", "8" >>
    /\ parsed.ty = "i8"
    /\ parsed.at["root"].ok

\* As an element of a Vec<T> the literal out of range is rejected, and the
\* literal in range is read as itself at both places.
C29_ElementChecked ==
    pc = "cast"
        => IF FitsIn(parsed.ty, value.i)
           THEN \A place \in LiteralPlaces :
                    /\ parsed.at[place].ok
                    /\ parsed.at[place].v
                           = (IF place = "root" THEN HInt(parsed.ty, value.i)
                              ELSE HVec(IntType(parsed.ty),
                                        << HInt(parsed.ty, value.i) >>))
           ELSE ~parsed.at["element"].ok

\* ------------------------------------------------ the pretty flag

\* A tree built from Null, Bool, Number, String, Array and Object.
RECURSIVE IsPlainTree(_)
IsPlainTree(v) ==
    CASE v.t \in {"Null", "Bool", "Number", "String"} -> TRUE
      [] v.t = "Array" -> \A i \in 1..Len(v.a) : IsPlainTree(v.a[i])
      [] v.t = "Object" -> \A i \in 1..Len(v.o) : IsPlainTree(v.o[i].v)
      [] OTHER -> FALSE

\* The options with the pretty flag the other way round.
OtherPretty(opts) == [opts EXCEPT !.pretty = ~opts.pretty]

\* C30: for every options o and every value tree built from Null, Bool,
\* Number, String, Array and Object, the text written with o.pretty = true
\* is exactly the text written with o.pretty = false.
C30_PrettyWritesTheSame ==
    (pc # "start" /\ IsPlainTree(value))
        => output = to_string_with_options(value, OtherPretty(options))

\* An object of two fields has been written with the pretty flag set: the
\* second field of a top-level object is where write_object reads the flag.
C30_PrettyObjectWritten ==
    /\ pc = "serialized"
    /\ options.pretty
    /\ value.t = "Object" /\ Len(value.o) = 2
    /\ IsPlainTree(value)

\* ------------------------------------ the parser followed call by call

\* The calls of the Deserializer that have not returned. parse_value hands
\* over to parse_array or parse_object and returns what they return, and so
\* does parse_array with parse_inline_array, parse_list_array and
\* parse_table: a call that hands over is replaced by the call it makes.

\* parse_value, about to start.
ValueFrame == [fn |-> "parse_value"]

\* parse_object in its field loop; key is the key whose value is being
\* parsed by the call above this one.
ObjectFrame(base_indent, map, key) ==
    [fn |-> "parse_object", base_indent |-> base_indent, map |-> map,
     key |-> key]

\* parse_list_array, parse_inline_array and parse_table in their loops,
\* i elements or rows being done.
ListFrame(i, declared_length, elements) ==
    [fn |-> "parse_list_array", i |-> i, declared_length |-> declared_length,
     elements |-> elements]

InlineFrame(i, declared_length, delimiter, elements) ==
    [fn |-> "parse_inline_array", i |-> i,
     declared_length |-> declared_length, delimiter |-> delimiter,
     elements |-> elements]

TableFrame(i, declared_length, headers, delimiter, rows) ==
    [fn |-> "parse_table", i |-> i, declared_length |-> declared_length,
     headers |-> headers, delimiter |-> delimiter, rows |-> rows]

\* The innermost call and the calls below it.
Top(fs) == fs[Len(fs)]
Callers(fs) == SubSeq(fs, 1, Len(fs) - 1)

\* What a step leaves behind: the Deserializer and the calls still open,
\* or, when the outermost call has returned, its result.
Running(st, fs) == [done |-> FALSE, st |-> st, frames |-> fs, r |-> NotParsed]
Finished(r) == [done |-> TRUE, st |-> r.st, frames |-> << >>, r |-> r]

\* The innermost call returns r to callers. An Err goes through the `?` of
\* every caller. An Ok goes to the call below: parse_object inserts the value
\* under its key and skips the blanks that follow (the end of its loop
\* body), parse_list_array pushes the element.
Return(input, r, callers) ==
    LET To(res) ==
            IF ~res.ok \/ callers = << >> THEN Finished(res)
            ELSE IF Top(callers).fn = "parse_object"
            THEN Running(skip_whitespace_same_line(input, res.st),
                         Append(Callers(callers),
                                [Top(callers) EXCEPT
                                    !.map = MapInsert(@, Top(callers).key,
                                                      res.v)]))
            ELSE Running(res.st,
                         Append(Callers(callers),
                                [Top(callers) EXCEPT
                                    !.elements = Append(@, res.v),
                                    !.i = @ + 1]))
    IN Bind(r, To)

\* parse_table up to its row loop.
CallTable(input, st, declared_length, delimiter, callers) ==
    IF peek_char(input, st) # "{"
    THEN Return(input, Err(<< "Expected '{'" >>, st), callers)
    ELSE LET Rows(h) ==
                 IF ~h.ok THEN Return(input, h, callers)
                 ELSE IF peek_char(input, h.st) # "}"
                 THEN Return(input, Err(<< "Expected '}'" >>, h.st), callers)
                 ELSE IF peek_char(input, Advance(h.st, 1)) # ":"
                 THEN Return(input, Err(<< "Expected ':'" >>,
                                        Advance(h.st, 1)), callers)
                 ELSE Running(Advance(h.st, 2),
                              Append(callers,
                                     TableFrame(0, declared_length, h.v,
                                                delimiter, << >>)))
         IN Bind(HeaderLoop(input, Advance(st, 1), << >>), Rows)

\* parse_array up to the loop of the form it finds.
CallArray(input, st, callers) ==
    LET s1 == Advance(st, 1)
        s2 == IF peek_char(input, s1) = "#" THEN Advance(s1, 1) ELSE s1
        ndig == DigitRun(SubSeq(input, s2.pos + 1, Len(input)))
        s3 == Advance(s2, ndig)
        declared_length == DigitsToNat(SubSeq(input, s2.pos + 1, s3.pos))
        space_count == CountSpaces(input, s3.pos)
        delimiter == IF peek_char(input, s3) = "|" THEN "Pipe"
                     ELSE IF space_count >= 4 THEN "Tab" ELSE "Comma"
        s4 == IF delimiter = "Pipe" THEN Advance(s3, 1)
              ELSE IF delimiter = "Tab" THEN Advance(s3, space_count)
              ELSE s3
        \* after the ']', s5 being there
        Form(n, d, s5) ==
            IF peek_char(input, s5) = "{"
            THEN CallTable(input, s5, n, d, callers)
            ELSE IF peek_char(input, s5) # ":"
            THEN Return(input, Err(<< "Expected ':'" >>, s5), callers)
            ELSE IF n = 0
            THEN Return(input, Ok(Array(<< >>), Advance(s5, 1)), callers)
            ELSE Bind(skip_whitespace(input, Advance(s5, 1)),
                      LAMBDA s7 :
                          IF peek_char(input, s7) = "\n"
                          THEN Running(s7, Append(callers,
                                                  ListFrame(0, n, << >>)))
                          ELSE Running(s7, Append(callers,
                                                  InlineFrame(0, n, d,
                                                              << >>))))
        \* at the ']' expected at s4
        Bracket(d, s4v) ==
            IF peek_char(input, s4v) # "]"
            THEN Return(input, Err(<< "Expected ']'" >>, s4v), callers)
            ELSE Bind(declared_length,
                      LAMBDA n : Form(n, d, Advance(s4v, 1)))
    IN IF peek_char(input, st) # "["
       THEN Return(input, Err(<< "Expected '['" >>, st), callers)
       ELSE IF ndig = 0
       THEN Return(input, Err(<< "Invalid array length" >>, s3), callers)
       ELSE Bind(delimiter, LAMBDA d : Bind(s4, LAMBDA s4v : Bracket(d, s4v)))

\* parse_object up to its field loop.
CallObject(input, st, callers) ==
    LET base_indent == st.current_indent
        Blanks_skipped(s1) ==
            LET nl == peek_char(input, s1) = "\n"
                next_indent == CountSpaces(input, s1.pos + 1)
            IN IF nl /\ base_indent > 0 /\ next_indent < base_indent
               THEN Return(input, Ok(Object(<< >>), s1), callers)
               ELSE IF nl /\ base_indent = 0 /\ next_indent = 0
                       /\ ~found_colon(input, s1.pos + 1)
               THEN Return(input, Ok(Object(<< >>), s1), callers)
               ELSE IF ~nl /\ at_end(input, s1)
               THEN Return(input, Ok(Object(<< >>), s1), callers)
               ELSE Running(push_indent(s1, base_indent),
                            Append(callers,
                                   ObjectFrame(base_indent, << >>, << >>)))
    IN Bind(skip_whitespace_same_line(input, st), Blanks_skipped)

\* parse_value: the value is parsed at once when it is a string, a number,
\* a boolean or null; an array or an object is a call that takes over.
CallValue(input, st, callers) ==
    LET Dispatch(s1) ==
            LET ch == peek_char(input, s1)
            IN IF ch = "[" THEN CallArray(input, s1, callers)
               ELSE IF ch = "\""
               THEN Return(input, StringResult(parse_string(input, s1)),
                           callers)
               ELSE IF ch \in {"t", "f"}
               THEN Return(input, BoolResult(parse_bool(input, s1)), callers)
               ELSE IF ch = "n"
               THEN Return(input, parse_null(input, s1), callers)
               ELSE IF is_ascii_digit(ch) \/ ch = "-"
               THEN Return(input, NumberResult(parse_number(input, s1)),
                           callers)
               ELSE IF at_end(input, s1)
               THEN Return(input, Ok(Object(<< >>), s1), callers)
               ELSE IF found_colon(input, s1.pos)
               THEN CallObject(input, s1, callers)
               ELSE Return(input, CoercedResult(parse_string(input, s1)),
                           callers)
    IN Bind(skip_whitespace(input, st), Dispatch)

\* A field loop that, at `continue`, starts over from where the iteration
\* began: the newline it consumed is before it again.
ContinueWhereItBegan(st, s, f, callers) == Running(st, Append(callers, f))

\* `continue` in the field loop of parse_object: the iteration that began
\* at st has moved the cursor to s, and the loop starts over from there.
Continue(st, s, f, callers) == Running(s, Append(callers, f))

\* One iteration of the field loop of parse_object, f being its call: up
\* to `break`, to `continue`, to an error, or to the call of parse_value
\* for the value of the key just read.
ObjectIteration(input, st, f, callers) ==
    LET \* after the ':' and the blanks that follow it
        Value_at(key, s5) ==
            Running(IF peek_char(input, s5) = "\n"
                    THEN [Advance(s5, 1) EXCEPT
                             !.current_indent = CountSpaces(input, s5.pos + 1)]
                    ELSE s5,
                    Append(Append(callers, [f EXCEPT !.key = key.v]),
                           ValueFrame))
        \* at the ':' expected after the key and the blanks that follow it
        Colon_at(key, s4) ==
            IF peek_char(input, s4) # ":"
            THEN Return(input, Err(<< "Expected ':' after key" >>, s4), callers)
            ELSE Bind(skip_whitespace_same_line(input, Advance(s4, 1)),
                      LAMBDA s5 : Value_at(key, s5))
        Field(key) ==
            IF ~key.ok THEN Return(input, key, callers)
            ELSE Bind(skip_whitespace_same_line(input, key.st),
                      LAMBDA s4 : Colon_at(key, s4))
        \* s1 after the blanks, s2 after the newline if one is there, s3
        \* after the blanks of the line
        Line(s1, nl, s2, s3) ==
            IF nl /\ f.base_indent > 0 /\ s2.current_indent < f.base_indent
            THEN Return(input, Ok(Object(f.map), pop_indent(s2)), callers)
            ELSE IF nl /\ peek_char(input, s2) = "\n"
            THEN Continue(st, s2, f, callers)
            ELSE IF ~nl /\ at_end(input, s1)
            THEN Return(input, Ok(Object(f.map), pop_indent(s1)), callers)
            ELSE IF at_end(input, s3) \/ peek_char(input, s3) = "\n"
            THEN Continue(st, s3, f, callers)
            ELSE Bind(parse_string(input, s3), Field)
        Newline(s1, nl) ==
            Bind(IF nl
                 THEN [Advance(s1, 1) EXCEPT
                          !.current_indent = CountSpaces(input, s1.pos + 1)]
                 ELSE s1,
                 LAMBDA s2 : Bind(skip_whitespace_same_line(input, s2),
                                  LAMBDA s3 : Line(s1, nl, s2, s3)))
    IN Bind(skip_whitespace_same_line(input, st),
            LAMBDA s1 : Newline(s1, peek_char(input, s1) = "\n"))

\* One iteration of the loop of parse_list_array, or its end after the
\* declared count: up to the call of parse_value for the entry.
ListIteration(input, st, f, callers) ==
    LET s1 == IF peek_char(input, st) = "\n" THEN Advance(st, 1) ELSE st
        s2 == [s1 EXCEPT !.current_indent = detect_indent_level(input, s1)]
        Dash(s3) ==
            IF peek_char(input, s3) # "-"
            THEN Return(input,
                        Err(<< "Expected '- ' prefix in list format" >>, s3),
                        callers)
            ELSE IF peek_char(input, Advance(s3, 1)) # " "
            THEN Return(input, Err(<< "Expected space after '-'" >>,
                                   Advance(s3, 1)), callers)
            ELSE Running(Advance(s3, 2),
                         Append(Append(callers, f), ValueFrame))
    IN IF f.i >= f.declared_length
       THEN Return(input, Ok(Array(f.elements), st), callers)
       ELSE Bind(skip_whitespace(input, s2), Dash)

\* One iteration of the loop of parse_inline_array, or its end after the
\* declared count.
InlineIteration(input, st, f, callers) ==
    LET s1 == IF f.i > 0
              THEN skip_whitespace(input,
                                   SkipDelimiter(input, st, f.delimiter))
              ELSE st
        Next_element(r) ==
            IF ~r.ok THEN Return(input, r, callers)
            ELSE Running(r.st,
                         Append(callers,
                                [f EXCEPT !.elements = Append(@, r.v),
                                          !.i = @ + 1]))
    IN IF f.i >= f.declared_length
       THEN Return(input, Ok(Array(f.elements), st), callers)
       ELSE Bind(parse_primitive_value(input, s1), Next_element)

\* One iteration of the row loop of parse_table, or its end after the
\* declared count or at the end of the input.
TableIteration(input, st, f, callers) ==
    LET s1 == IF peek_char(input, st) = "\n" THEN Advance(st, 1) ELSE st
        Next_row(r) ==
            IF ~r.ok THEN Return(input, r, callers)
            ELSE Running(r.st,
                         Append(callers,
                                [f EXCEPT !.rows = Append(@, r.v),
                                          !.i = @ + 1]))
        Row(s2) ==
            IF at_end(input, s2)
            THEN Return(input, Ok(Table(f.headers, f.rows), s2), callers)
            ELSE Bind(RowCells(input, s2, 0, Len(f.headers), f.delimiter,
                               << >>),
                      Next_row)
    IN IF f.i >= f.declared_length
       THEN Return(input, Ok(Table(f.headers, f.rows), st), callers)
       ELSE Bind(skip_whitespace(input, s1), Row)

\* ------------------------- state machine: from_str followed call by call

\* What from_str returns for the result r of the outermost parse_value.
Delivered(r) ==
    IF r.ok THEN [ok |-> TRUE, v |-> ToonValueVisitor(r.v), err |-> << >>]
    ELSE [ok |-> FALSE, v |-> Null, err |-> r.err]

\* The state a step leaves.
Becomes(c) ==
    /\ deserializer' = c.st
    /\ frames' = c.frames
    /\ IF c.done
       THEN parsed' = Delivered(c.r) /\ pc' = "parsed"
       ELSE parsed' = parsed /\ pc' = "parsing"
    /\ UNCHANGED << value, options, output, error >>

\* from_str: Deserializer::from_str(s), and T::deserialize calls
\* deserialize_any, which calls parse_value.
Begin ==
    /\ pc = "serialized"
    /\ Becomes(Running(Deserializer_from_str, << ValueFrame >>))

ParseValueCall ==
    /\ pc = "parsing"
    /\ Top(frames).fn = "parse_value"
    /\ \E c \in {CallValue(output, deserializer, Callers(frames))} :
           Becomes(c)

ParseObjectIteration ==
    /\ pc = "parsing"
    /\ Top(frames).fn = "parse_object"
    /\ \E c \in {ObjectIteration(output, deserializer, Top(frames),
                                  Callers(frames))} :
           Becomes(c)

ParseListIteration ==
    /\ pc = "parsing"
    /\ Top(frames).fn = "parse_list_array"
    /\ \E c \in {ListIteration(output, deserializer, Top(frames),
                                Callers(frames))} :
           Becomes(c)

ParseInlineIteration ==
    /\ pc = "parsing"
    /\ Top(frames).fn = "parse_inline_array"
    /\ \E c \in {InlineIteration(output, deserializer, Top(frames),
                                  Callers(frames))} :
           Becomes(c)

ParseTableIteration ==
    /\ pc = "parsing"
    /\ Top(frames).fn = "parse_table"
    /\ \E c \in {TableIteration(output, deserializer, Top(frames),
                                 Callers(frames))} :
           Becomes(c)

\* The steps of one from_str call.
Run ==
    \/ Begin
    \/ ParseValueCall
    \/ ParseObjectIteration
    \/ ParseListIteration
    \/ ParseInlineIteration
    \/ ParseTableIteration

StepNext == Receive \/ Run

\* from_str is a sequential function on the caller's thread: while it has
\* a step to take it takes it.
StepSpec == TextInit /\ [][StepNext]_vars /\ WF_vars(Run)

\* ------------------------------------------------ properties: termination

\* The call has returned: from the innermost caller down, no call is left.
Ended == pc' = "parsed" \/ Len(frames') < Len(frames)

\* What one step of the parser does to the cursor and to the open calls.
\* An iteration of the field loop of parse_object moves the cursor forward
\* or ends the loop. A call of parse_value never moves the cursor back, and
\* it returns or hands over to an array or object parser: it makes no call
\* of parse_value where it stands. An iteration of parse_list_array ends
\* the loop or calls parse_value past the `- ` it consumed; an iteration of
\* parse_inline_array or parse_table ends the loop or counts one more
\* element or row, below the declared count.
Progress ==
    pc = "parsing" =>
        LET f == Top(frames)
        IN CASE f.fn = "parse_object" ->
                    Ended \/ deserializer'.pos > deserializer.pos
             [] f.fn = "parse_value" ->
                    /\ deserializer'.pos >= deserializer.pos
                    /\ \/ Ended
                       \/ /\ Len(frames') = Len(frames)
                          /\ Top(frames').fn # "parse_value"
             [] f.fn = "parse_list_array" ->
                    \/ Ended
                    \/ /\ f.i < f.declared_length
                       /\ Len(frames') = Len(frames) + 1
                       /\ Top(frames').fn = "parse_value"
                       /\ deserializer'.pos > deserializer.pos
             [] OTHER ->
                    \/ Ended
                    \/ /\ f.i < f.declared_length
                       /\ Len(frames') = Len(frames)
                       /\ Top(frames').i = f.i + 1

\* C28: for every input, from_str returns Ok or Err: a call that has begun
\* comes to its end, no iteration of the field loop of parse_object and no
\* call of parse_value leaves the cursor where it was without ending, and
\* the loops of parse_inline_array, parse_list_array and parse_table end at
\* an error, at the end of the input or after the declared count.
C28_FromStrReturns ==
    /\ (pc = "serialized") ~> (pc = "parsed")
    /\ [][Progress]_vars

\* from_str has returned Ok for an object inside an object, the cursor at
\* the end of a text with a blank line in it.
C28_NestedObjectReturned ==
    /\ pc = "parsed"
    /\ frames = << >>
    /\ parsed.ok
    /\ deserializer.pos = Len(output)
    /\ output \in BlankLineTexts
    /\ parsed.v.t = "Object"
    /\ \E i \in 1..Len(parsed.v.o) : parsed.v.o[i].v.t = "Object"

\* Followed call by call, from_str returns what it returns as one function.
C28_StepsAgree == pc = "parsed" => parsed = from_str(output)

\* The calls that are open are never more than the cursor has passed
\* characters, the outermost parse_value and its array or object aside.
C28_DepthWithinInput ==
    pc = "parsing" => Len(frames) <= deserializer.pos + 1

\* A row of a table whose header names no field consumes nothing: the row
\* loop of `[2]{}:` before `x` counts its two rows with the cursor on `x`.
C28_RowsWithoutFields ==
    (pc = "parsing" /\ output = << "[", "2", "]", "{", "}", ":", "\n", "x" >>
        /\ Top(frames).fn = "parse_table" /\ Top(frames).i >= 1)
        => peek_char(output, deserializer) = "x"

====
